---- MODULE Spec2Model ----
(***************************************************************************)
(* lrcmd: local/remote command execution with bounded retry.               *)
(*                                                                         *)
(* The model follows src/lrcmd/core.py (CommandBase), src/lrcmd/local.py   *)
(* (LocalCommand), src/lrcmd/remote.py (RemoteCommand),                    *)
(* src/lrcmd/exceptions.py, src/lrcmd/postprocessors.py, the dispatcher    *)
(* run() of src/lrcmd/__init__.py and the wrappers of                      *)
(* src/lrcmd/commands.py.                                                  *)
(*                                                                         *)
(* Conventions                                                             *)
(*   - an optional value (None, or an attribute that is not set) is the    *)
(*     empty sequence <<>>; a present value v is <<v>>;                    *)
(*   - standard output is a sequence of characters, so that the            *)
(*     post-processors really split it; standard error is a string;        *)
(*   - what the child process or the remote channel does in one attempt    *)
(*     is the environment's choice (an element of Outcomes).               *)
(*                                                                         *)
(* Specifications                                                          *)
(*   - Spec: run / execute / execute_repeat, one attempt per step;         *)
(*   - SpecCommand: construction of a command for any working directory,   *)
(*     and the remote shell running the command line it is sent;           *)
(*   - SpecChannel: one execute call, one blocking call per step, with     *)
(*     the command and the clock running beside it;                        *)
(*   - SpecVerbose: execute_repeat called twice on the same command and    *)
(*     the same outcomes, with verbose False and True;                     *)
(*   - SpecFiles: calls of exists, ensure_dir, remove, glob,               *)
(*     copy_remote_to_local and copy_glob_remote_to_local on a machine     *)
(*     with any files on it;                                               *)
(*   - SpecCopy: calls of copy_local_to_remote, statement by statement.    *)
(*   - SpecReuse: execute_repeat called again and again on one command,    *)
(*     with any number of attempts;                                        *)
(*   - SpecWindow: the remote execute without timeout against a command    *)
(*     that writes through the bounded window of the channel;              *)
(*   - SpecConnection: construction of a Connection.                       *)
(***************************************************************************)
EXTENDS Integers, Sequences, FiniteSets, TLC

\* ------------------------------------------------------------------ bounds
MaxAttempts == 3
MaxWait == 1
MaxDirLen == 3
MaxChunks == 2
MaxEvents == 5
MaxTodo == 3
MaxWindow == 2

\* ------------------------------------------------------- optional values
None == <<>>
Some(v) == <<v>>
IsSome(o) == o /= <<>>
The(o) == o[1]

\* ------------------------------------------------------ sample data sets
\* Text a command may write on standard output.
Stdouts == { <<>>, <<"a", "\n", "\n", "b">> }
\* Text a command may write on standard error.
Stderrs == { "", "err" }
\* Exit codes of a command.
ReturnCodes == { 0, 1 }
\* The command line given to run(): 'ls x'.
CommandText == << "l", "s", " ", "x" >>
\* The label of the Connection a remote command runs through.
ConnectionLabel == "user@node"

\* ------------------------------------------------------- post-processors
RECURSIVE SplitFrom(_, _, _)
SplitFrom(s, i, cur) ==
    IF i > Len(s) THEN << cur >>
    ELSE IF s[i] = "\n" THEN << cur >> \o SplitFrom(s, i + 1, <<>>)
    ELSE SplitFrom(s, i + 1, Append(cur, s[i]))

\* s.split('\n')
list_of_lines(s) == SplitFrom(s, 1, <<>>)

\* the lines of s that are not empty, in order
list_of_non_empty_lines(s) == SelectSeq(list_of_lines(s), LAMBDA line : line /= <<>>)

PostProcessors == { "list_of_lines", "list_of_non_empty_lines", "xml_to_odict" }

\* Calling post-processor pp on s: a value, or the exception it raises.
\* xml_to_odict is modelled in an installation without xmltodict, where it
\* raises ImportError for every input.
post_process(pp, s) ==
    CASE pp = "list_of_lines"           -> [ok |-> TRUE, value |-> list_of_lines(s)]
      [] pp = "list_of_non_empty_lines" -> [ok |-> TRUE, value |-> list_of_non_empty_lines(s)]
      [] pp = "xml_to_odict"            -> [ok |-> FALSE, value |-> <<>>]

\* ----------------------------------------------------------------- Result
\* types.SimpleNamespace(): no attribute is set.
EmptyResult ==
    [stdout |-> None, stderr |-> None, returncode |-> None,
     processed |-> None, attempts |-> None, repeat_messages |-> None]

\* Mutant of Completed: the exit code is not taken over (it stays 0).
Completed_without_returncode(out) ==
    [EmptyResult EXCEPT !.stdout = Some(out.stdout), !.stderr = Some(out.stderr),
                        !.returncode = Some(0)]

\* The result of a completed execution: stdout, stderr and returncode set.
Completed(out) ==
    [EmptyResult EXCEPT !.stdout = Some(out.stdout), !.stderr = Some(out.stderr),
                        !.returncode = Some(out.returncode)]

\* ------------------------------------------------------------ exceptions
\* Mutant of FailedCommand: the result is not stored in the error.
FailedCommand_without_result(type, msg, result, error_log) ==
    [error  |-> [type |-> type, msg |-> msg, result |-> None],
     logged |-> IF error_log THEN << [type |-> type, msg |-> msg] >> ELSE <<>>]

\* FailedCommand.__init__: the error object, and what it writes to error_log.
FailedCommand(type, msg, result, error_log) ==
    [error  |-> [type |-> type, msg |-> msg, result |-> result],
     logged |-> IF error_log THEN << [type |-> type, msg |-> msg] >> ELSE <<>>]

\* An exception that is not a FailedCommand (it has no result attribute).
OtherException(type) ==
    [error  |-> [type |-> type, msg |-> [text |-> type], result |-> None],
     logged |-> <<>>]

CheckerErrors == { "NonZeroReturnCode", "Stderr" }
ClassifiedErrors == { "NonZeroReturnCode", "Stderr", "CommandTimedOut" }

\* ---------------------------------------------------------------- strings
\* A string is a sequence of characters.  Characters the shell gives a
\* meaning to: the space, the two quotes, ';' and '&'.

\* The characters shlex.quote leaves alone: [a-zA-Z0-9_@%+=:,./-].
SafeChars == { "d", "l", "s", "x", ".", "/" }

RECURSIVE EscapeSingleQuotes(_)
\* s.replace("'", "'\"'\"'")
EscapeSingleQuotes(s) ==
    IF s = <<>> THEN <<>>
    ELSE (IF Head(s) = "'" THEN << "'", "\"", "'", "\"", "'" >> ELSE << Head(s) >>)
         \o EscapeSingleQuotes(Tail(s))

\* Mutant of shlex_quote: the string is used as it is.
shlex_quote_nothing(s) == s

\* shlex.quote(s)
shlex_quote(s) ==
    IF s = <<>> THEN << "'", "'" >>
    ELSE IF \A i \in 1 .. Len(s) : s[i] \in SafeChars THEN s
    ELSE << "'" >> \o EscapeSingleQuotes(s) \o << "'" >>

\* A word of a command line, or (op) one of the operators ';' and '&&'.
Word(text) == [op |-> FALSE, text |-> text]
Operator(text) == [op |-> TRUE, text |-> text]

RECURSIVE Tokens(_, _, _, _, _, _)
\* The words of command line s from position i on, as a POSIX shell or
\* shlex in POSIX mode splits it: blanks separate words, quotes group
\* characters.  mode is "plain", "single" or "double"; cur is the word
\* being read (inword); with operators, an unquoted ';' or '&&' is a token
\* of its own (the shell), otherwise it is part of a word (shlex.split).
Tokens(s, i, mode, cur, inword, operators) ==
    LET flush == IF inword THEN << Word(cur) >> ELSE <<>> IN
    IF i > Len(s) THEN flush
    ELSE IF mode = "single"
    THEN IF s[i] = "'" THEN Tokens(s, i + 1, "plain", cur, TRUE, operators)
         ELSE Tokens(s, i + 1, "single", Append(cur, s[i]), TRUE, operators)
    ELSE IF mode = "double"
    THEN IF s[i] = "\"" THEN Tokens(s, i + 1, "plain", cur, TRUE, operators)
         ELSE Tokens(s, i + 1, "double", Append(cur, s[i]), TRUE, operators)
    ELSE IF s[i] = " " THEN flush \o Tokens(s, i + 1, "plain", <<>>, FALSE, operators)
    ELSE IF s[i] = "'" THEN Tokens(s, i + 1, "single", cur, TRUE, operators)
    ELSE IF s[i] = "\"" THEN Tokens(s, i + 1, "double", cur, TRUE, operators)
    ELSE IF operators /\ s[i] = ";"
    THEN flush \o << Operator(<< ";" >>) >>
         \o Tokens(s, i + 1, "plain", <<>>, FALSE, operators)
    ELSE IF operators /\ s[i] = "&" /\ i < Len(s) /\ s[i + 1] = "&"
    THEN flush \o << Operator(<< "&", "&" >>) >>
         \o Tokens(s, i + 2, "plain", <<>>, FALSE, operators)
    ELSE Tokens(s, i + 1, "plain", Append(cur, s[i]), TRUE, operators)

RECURSIVE Texts(_)
Texts(words) == IF words = <<>> THEN <<>> ELSE << Head(words).text >> \o Texts(Tail(words))

\* shlex.split(s)
shlex_split(s) == Texts(Tokens(s, 1, "plain", <<>>, FALSE, FALSE))

\* --------------------------------------------------------------- commands
\* The working directory run() is called with in the retry model: '.', its
\* default.
WorkingDirectories == { Some(<< "." >>) }

\* `if self.working_directory:` None and '' count as no working directory.
HasWorkingDirectory(working_directory) ==
    IsSome(working_directory) /\ The(working_directory) /= <<>>

\* LocalCommand.__init__: the command is split into an argument vector, no
\* connection is kept.
LocalCommand(command, working_directory) ==
    [cls |-> "LocalCommand", command |-> shlex_split(command),
     connection |-> None, working_directory |-> working_directory]

\* RemoteCommand.__init__: the command stays a shell string, prefixed by
\* 'cd <quoted working_directory> && ' when a working directory is given.
RemoteCommand(connection, command, working_directory) ==
    [cls |-> "RemoteCommand",
     command |-> IF HasWorkingDirectory(working_directory)
                 THEN << "c", "d", " " >> \o shlex_quote(The(working_directory))
                      \o << " ", "&", "&", " " >> \o command
                 ELSE command,
     connection |-> Some(connection), working_directory |-> working_directory]

\* ------------------------------------------------ what one attempt meets
\* The command runs to its end and leaves stdout, stderr and an exit code.
CompletedOutcomes ==
    [kind : {"completed"}, stage : {"done"}, stdout : Stdouts, stderr : Stderrs,
     returncode : ReturnCodes]

\* The command does not finish within the timeout.  A local command is
\* killed by subprocess.run; a remote one times out before stdout has been
\* read to its end (in exec_command or in the read of stdout: nothing is
\* stored), or in the read of stderr (stdout has been stored then).
TimeoutOutcomes(remote) ==
    IF remote
    THEN [kind : {"timeout"}, stage : {"stdout"}, stdout : {<<>>},
          stderr : {""}, returncode : {0}]
         \cup [kind : {"timeout"}, stage : {"stderr"}, stdout : Stdouts,
               stderr : {""}, returncode : {0}]
    ELSE [kind : {"timeout"}, stage : {"run"}, stdout : {<<>>}, stderr : {""},
          returncode : {0}]

\* timeout is None: the attempt cannot time out.
Outcomes(remote, timeout) ==
    CompletedOutcomes \cup (IF IsSome(timeout) THEN TimeoutOutcomes(remote) ELSE {})

\* --------------------------------------------------------- process_output
\* What an execute call hands back: the exception raised (if any), the
\* messages written to error_log, self.result afterwards, the value returned
\* and the number of calls of the post-processor.
Raise(fc, result, pp_calls) ==
    [raised |-> Some(fc.error), logged |-> fc.logged, result |-> result,
     returned |-> None, pp_calls |-> pp_calls]

Return(result, pp_calls) ==
    [raised |-> None, logged |-> <<>>, result |-> result, returned |-> Some(result),
     pp_calls |-> pp_calls]

\* Mutant of process_output: stderr is checked before the return code.
process_output_stderr_first(self, result, post_processor, check, stderr_is_error, error_log) ==
    IF stderr_is_error /\ The(result.stderr) /= ""
    THEN Raise(FailedCommand("Stderr",
                             [cls |-> self.cls, command |-> self.command,
                              stderr |-> The(result.stderr)],
                             Some(result), error_log), result, 0)
    ELSE IF check /\ The(result.returncode) /= 0
    THEN Raise(FailedCommand("NonZeroReturnCode",
                             [cls |-> self.cls, command |-> self.command,
                              returncode |-> The(result.returncode),
                              stderr |-> The(result.stderr)],
                             Some(result), error_log), result, 0)
    ELSE IF IsSome(post_processor)
    THEN LET p == post_process(The(post_processor), The(result.stdout)) IN
         IF p.ok
         THEN Return([result EXCEPT !.processed = Some(p.value)], 1)
         ELSE Raise(OtherException("ImportError"), result, 1)
    ELSE Return(result, 0)

\* Mutant of process_output: output on stderr is an error whatever
\* stderr_is_error says.
process_output_stderr_always(self, result, post_processor, check, stderr_is_error, error_log) ==
    IF check /\ The(result.returncode) /= 0
    THEN Raise(FailedCommand("NonZeroReturnCode",
                             [cls |-> self.cls, command |-> self.command,
                              returncode |-> The(result.returncode),
                              stderr |-> The(result.stderr)],
                             Some(result), error_log), result, 0)
    ELSE IF The(result.stderr) /= ""
    THEN Raise(FailedCommand("Stderr",
                             [cls |-> self.cls, command |-> self.command,
                              stderr |-> The(result.stderr)],
                             Some(result), error_log), result, 0)
    ELSE IF IsSome(post_processor)
    THEN LET p == post_process(The(post_processor), The(result.stdout)) IN
         IF p.ok
         THEN Return([result EXCEPT !.processed = Some(p.value)], 1)
         ELSE Raise(OtherException("ImportError"), result, 1)
    ELSE Return(result, 0)

\* Mutant of process_output: the processed value replaces stdout.
process_output_overwrites_stdout(self, result, post_processor, check, stderr_is_error, error_log) ==
    IF check /\ The(result.returncode) /= 0
    THEN Raise(FailedCommand("NonZeroReturnCode",
                             [cls |-> self.cls, command |-> self.command,
                              returncode |-> The(result.returncode),
                              stderr |-> The(result.stderr)],
                             Some(result), error_log), result, 0)
    ELSE IF stderr_is_error /\ The(result.stderr) /= ""
    THEN Raise(FailedCommand("Stderr",
                             [cls |-> self.cls, command |-> self.command,
                              stderr |-> The(result.stderr)],
                             Some(result), error_log), result, 0)
    ELSE IF IsSome(post_processor)
    THEN LET p == post_process(The(post_processor), The(result.stdout)) IN
         IF p.ok
         THEN Return([result EXCEPT !.stdout = Some(p.value)], 1)
         ELSE Raise(OtherException("ImportError"), result, 1)
    ELSE Return(result, 0)

process_output(self, result, post_processor, check, stderr_is_error, error_log) ==
    IF check /\ The(result.returncode) /= 0
    THEN Raise(FailedCommand("NonZeroReturnCode",
                             [cls |-> self.cls, command |-> self.command,
                              returncode |-> The(result.returncode),
                              stderr |-> The(result.stderr)],
                             Some(result), error_log), result, 0)
    ELSE IF stderr_is_error /\ The(result.stderr) /= ""
    THEN Raise(FailedCommand("Stderr",
                             [cls |-> self.cls, command |-> self.command,
                              stderr |-> The(result.stderr)],
                             Some(result), error_log), result, 0)
    ELSE IF IsSome(post_processor)
    THEN LET p == post_process(The(post_processor), The(result.stdout)) IN
         IF p.ok
         THEN Return([result EXCEPT !.processed = Some(p.value)], 1)
         ELSE Raise(OtherException("ImportError"), result, 1)
    ELSE Return(result, 0)

\* ---------------------------------------------------------------- execute
\* Mutant of new_result: execute goes on with the result object of the
\* previous call.
new_result_keeps_previous(self) ==
    IF IsSome(self.result) THEN The(self.result) ELSE EmptyResult

\* self.result = SimpleNamespace(), the first statement of both executors.
\* self is the command object with its attribute result.
new_result(self) == EmptyResult

\* Mutant of LocalExecute: self.result is not renewed before the command
\* runs, so that the error of a timeout carries the result of the execution
\* before.
LocalExecute_reports_previous_result(self, out, post_processor, check, stderr_is_error, timeout, error_log) ==
    IF out.kind = "timeout"
    THEN Raise(FailedCommand("CommandTimedOut",
                             [command |-> self.command, timeout |-> The(timeout)],
                             Some(new_result_keeps_previous(self)), error_log),
               new_result_keeps_previous(self), 0)
    ELSE process_output(self, Completed(out), post_processor, check, stderr_is_error,
                        error_log)

\* LocalCommand.execute
LocalExecute(self, out, post_processor, check, stderr_is_error, timeout, error_log) ==
    IF out.kind = "timeout"
    THEN Raise(FailedCommand("CommandTimedOut",
                             [command |-> self.command, timeout |-> The(timeout)],
                             Some(new_result(self)), error_log), new_result(self), 0)
    ELSE process_output(self, Completed(out), post_processor, check, stderr_is_error,
                        error_log)

\* self.result of a remote command when the channel times out in `stage`.
RemotePartial(self, out) ==
    IF out.stage = "stderr"
    THEN [new_result(self) EXCEPT !.stdout = Some(out.stdout)]
    ELSE new_result(self)

\* self.result of a remote command whose three channel calls returned:
\* stdout, stderr and returncode are stored in the new result object.
RemoteCompleted(self, out) ==
    [new_result(self) EXCEPT !.stdout = Some(out.stdout), !.stderr = Some(out.stderr),
                             !.returncode = Some(out.returncode)]

\* RemoteCommand.execute
RemoteExecute(self, out, post_processor, check, stderr_is_error, timeout, error_log) ==
    IF out.kind = "timeout"
    THEN Raise(FailedCommand("CommandTimedOut",
                             [command |-> self.command, timeout |-> The(timeout),
                              label |-> The(self.connection)],
                             None, error_log), RemotePartial(self, out), 0)
    ELSE process_output(self, RemoteCompleted(self, out), post_processor, check,
                        stderr_is_error, error_log)

\* Mutant of self_after_execute: the 'cd <working_directory> && ' prefix is
\* put in front of the command by execute, at every call.
self_after_execute_prefixes_again(self) ==
    IF self.cls = "RemoteCommand" /\ HasWorkingDirectory(self.working_directory)
    THEN [self EXCEPT !.command = << "c", "d", " " >>
                                      \o shlex_quote(The(self.working_directory))
                                      \o << " ", "&", "&", " " >> \o @]
    ELSE self

\* The command object after an execute call: execute assigns self.result
\* only; command, working_directory and connection stay as they are.
self_after_execute(self) == self

\* Dynamic dispatch of self.execute(...)
execute(self, out, post_processor, check, stderr_is_error, timeout, error_log) ==
    IF self.cls = "LocalCommand"
    THEN LocalExecute(self, out, post_processor, check, stderr_is_error, timeout, error_log)
    ELSE RemoteExecute(self, out, post_processor, check, stderr_is_error, timeout, error_log)

\* ------------------------------------------------------------------ state
VARIABLES
    pc,               \* "idle", "execute" (run with attempts == 1), "while", "done"
    args,             \* the arguments of the call in progress (None before it)
    cmd,              \* the command object: cls, command, connection, working_directory
    result,           \* cmd.result
    repeat_messages,  \* cmd.repeat_messages, one element per message
    attempts_left,    \* local of execute_repeat
    sleep_time,       \* local of execute_repeat
    slept_time,       \* local of execute_repeat
    events,           \* the execute calls and the sleeps performed, in order
    produced,         \* what the command did in the latest attempt
    last_raised,      \* the exception the latest execute call raised (None: it returned)
    pp_calls,         \* calls of the post-processor made by the latest execute call
    outcome,          \* how the call ended: returned value or raised error
    error_log,        \* the messages written to the error_log sink
    echoed,           \* the messages echoed to stderr (verbose)
    shell,            \* what the remote shell did with the command line (None: nothing yet)
    channel,          \* the remote channel or child process of one execute call (None: none)
    twin,             \* two execute_repeat calls that differ in verbose only (None: none)
    fs,               \* the file system of the machine the wrappers of commands.py act on
    last_call         \* the latest call of a wrapper of commands.py (None: none)

vars == << pc, args, cmd, result, repeat_messages, attempts_left, sleep_time,
           slept_time, events, produced, last_raised, pp_calls, outcome, error_log,
           echoed, shell, channel, twin, fs, last_call >>

\* The state of the command's environment, which the retry model leaves alone.
envvars == << shell, channel, twin, fs, last_call >>

Attempts == 0 .. MaxAttempts
Waits == 0 .. MaxWait
Timeouts == { None, Some(1) }
Connections == { None, Some(ConnectionLabel) }

\* The arguments of run() and of execute_repeat().
CallArgs ==
    [entry : {"run", "execute_repeat"}, connection : Connections,
     working_directory : WorkingDirectories, check : BOOLEAN,
     stderr_is_error : BOOLEAN, timeout : Timeouts, error_log : BOOLEAN,
     post_processor : {None} \cup {Some(f) : f \in PostProcessors},
     attempts : Attempts, wait : Waits, verbose : BOOLEAN]

ExecuteEvent == [op |-> "execute", secs |-> 0]
CallEvent == [op |-> "call", secs |-> 0]
SleepEvent(secs) == [op |-> "sleep", secs |-> secs]

NoOutcome == [kind |-> "none", result |-> None, error |-> None]
Returned(r) == [kind |-> "returned", result |-> Some(r), error |-> None]
Raised(e) == [kind |-> "raised", result |-> None, error |-> Some(e)]

Init ==
    /\ pc = "idle"
    /\ args = None
    /\ cmd = None
    /\ result = None
    /\ repeat_messages = <<>>
    /\ attempts_left = 0
    /\ sleep_time = 0
    /\ slept_time = 0
    /\ events = <<>>
    /\ produced = None
    /\ last_raised = None
    /\ pp_calls = 0
    /\ outcome = NoOutcome
    /\ error_log = <<>>
    /\ echoed = <<>>
    /\ shell = None
    /\ channel = None
    /\ twin = None
    /\ fs = None
    /\ last_call = None

\* ------------------------------------------------------- __repeat_message
\* Mutant of repeat_message: a message replaces the log instead of being
\* appended to it.
repeat_message_keeps_last(log, msg, verbose) ==
    IF IsSome(msg)
    THEN [repeat_messages |-> << The(msg) >>,
          echoed |-> IF verbose THEN Append(log.echoed, The(msg)) ELSE log.echoed]
    ELSE [repeat_messages |-> <<>>, echoed |-> log.echoed]

\* Mutant of repeat_message: a message that is echoed is not appended to
\* the log.
repeat_message_echo_instead(log, msg, verbose) ==
    IF IsSome(msg)
    THEN IF verbose
         THEN [repeat_messages |-> log.repeat_messages,
               echoed |-> Append(log.echoed, The(msg))]
         ELSE [repeat_messages |-> Append(log.repeat_messages, The(msg)),
               echoed |-> log.echoed]
    ELSE [repeat_messages |-> <<>>, echoed |-> log.echoed]

\* A non-empty msg is appended to the log (and echoed when verbose); the
\* empty msg resets the log.  log is [repeat_messages, echoed].
repeat_message(log, msg, verbose) ==
    IF IsSome(msg)
    THEN [repeat_messages |-> Append(log.repeat_messages, The(msg)),
          echoed |-> IF verbose THEN Append(log.echoed, The(msg)) ELSE log.echoed]
    ELSE [repeat_messages |-> <<>>, echoed |-> log.echoed]

\* "Attempt {attempt}/{attempts} succeeded after {seconds} seconds."
SucceededMessage(attempt, attempts, slept) ==
    [line |-> "succeeded", attempt |-> attempt, attempts |-> attempts,
     type |-> "", msg |-> [text |-> ""], seconds |-> slept]

\* "Attempt {attempt}/{attempts} failed. {type}: {msg} Retrying after {seconds} seconds."
FailedMessage(attempt, attempts, e, retry_after) ==
    [line |-> "failed", attempt |-> attempt, attempts |-> attempts,
     type |-> e.type, msg |-> e.msg, seconds |-> retry_after]

\* "Exhausted after {attempts} attempts."
ExhaustedMessage(attempts) ==
    [line |-> "exhausted", attempt |-> attempts, attempts |-> attempts,
     type |-> "", msg |-> [text |-> ""], seconds |-> 0]

\* CommandBase.maximum_wait_time, for attempts >= 1
maximum_wait_time(attempts, wait) == (2 ^ (attempts - 1) - 1) * wait

\* -------------------------------------------- the steps of execute_repeat
\* Mutant of while_condition: the loop stops one attempt early.
while_condition_stops_early(left) == left > 1

\* while attempts_left:
while_condition(left) == left /= 0

\* Mutant of after_failure: a failed attempt costs two attempts.
after_failure_by_two(left) == left - 2

\* attempts_left -= 1
after_failure(left) == left - 1

\* Mutant of attempt_number: counted from 0.
attempt_number_from_zero(attempts, left) == attempts - left

\* attempts-attempts_left+1, the number of the attempt in progress
attempt_number(attempts, left) == attempts - left + 1

\* Mutant of sleeps_before_retry: a sleep follows every failure.
sleeps_after_every_failure(left) == TRUE

\* if attempts_left: (sleep before the next attempt)
sleeps_before_retry(left) == left /= 0

\* the argument of sleep(): the wait parameter, not the doubled sleep_time
sleep_argument(wait, current_sleep_time) == wait

\* sleep_time *= 2
next_sleep_time(current_sleep_time) == current_sleep_time * 2

\* ------------------------------------------------------------------- run
\* Mutant of NewCommand: the connection is ignored, the command is local.
NewCommand_always_local(a) == LocalCommand(CommandText, a.working_directory)

\* The command object run() builds.
NewCommand(a) ==
    IF a.connection = None
    THEN LocalCommand(CommandText, a.working_directory)
    ELSE RemoteCommand(The(a.connection), CommandText, a.working_directory)

\* Mutant of run_calls_execute: run always goes through execute_repeat.
run_never_calls_execute(attempts) == FALSE

\* if attempts==1: one execute call, otherwise execute_repeat
run_calls_execute(attempts) == attempts = 1

\* The variables execute and execute_repeat work on, as one record.
Locals ==
    [pc |-> pc, result |-> result, repeat_messages |-> repeat_messages,
     attempts_left |-> attempts_left, sleep_time |-> sleep_time,
     slept_time |-> slept_time, events |-> events, produced |-> produced,
     last_raised |-> last_raised, pp_calls |-> pp_calls, outcome |-> outcome,
     error_log |-> error_log, echoed |-> echoed]

\* The variables take the values of record st.
Assign(st) ==
    /\ pc' = st.pc
    /\ result' = st.result
    /\ repeat_messages' = st.repeat_messages
    /\ attempts_left' = st.attempts_left
    /\ sleep_time' = st.sleep_time
    /\ slept_time' = st.slept_time
    /\ events' = st.events
    /\ produced' = st.produced
    /\ last_raised' = st.last_raised
    /\ pp_calls' = st.pp_calls
    /\ outcome' = st.outcome
    /\ error_log' = st.error_log
    /\ echoed' = st.echoed

\* run() hands over to one execute call.
Delegate_execute ==
    /\ pc' = "execute"
    /\ UNCHANGED << repeat_messages, attempts_left, sleep_time, slept_time >>

\* Mutant of while_entry: self.repeat_messages is left as it is.
while_entry_keeps_log(a, st) ==
    [st EXCEPT !.pc = "while",
               !.attempts_left = a.attempts,
               !.sleep_time = a.wait,
               !.slept_time = 0]

\* execute_repeat up to its while loop, from state st.
while_entry(a, st) ==
    [st EXCEPT !.pc = "while",
               !.repeat_messages = repeat_message([repeat_messages |-> <<>>,
                                                   echoed |-> st.echoed],
                                                  None, FALSE).repeat_messages,
               !.attempts_left = a.attempts,
               !.sleep_time = a.wait,
               !.slept_time = 0]

\* execute_repeat up to its while loop.
Delegate_execute_repeat(a) ==
    LET st == while_entry(a, Locals)
    IN /\ pc' = st.pc
       /\ repeat_messages' = st.repeat_messages
       /\ attempts_left' = st.attempts_left
       /\ sleep_time' = st.sleep_time
       /\ slept_time' = st.slept_time

\* run(command, connection, ...) up to its first execute call, or a direct
\* call of execute_repeat on a new command object (entry "execute_repeat").
run ==
    /\ pc = "idle"
    /\ \E a \in CallArgs :
         /\ args' = Some(a)
         /\ cmd' = Some(NewCommand(a))
         /\ IF a.entry = "run" /\ run_calls_execute(a.attempts)
            THEN Delegate_execute
            ELSE Delegate_execute_repeat(a)
    /\ UNCHANGED << result, events, produced, last_raised, pp_calls, outcome,
                    error_log, echoed, envvars >>

\* An execute call of the command object with the call's arguments.
Execute(a, out) ==
    execute(The(cmd) @@ [result |-> result], out, a.post_processor, a.check, a.stderr_is_error, a.timeout,
            a.error_log)

\* run with attempts == 1: the single execute call and its return or raise.
execute_once ==
    /\ pc = "execute"
    /\ \E out \in Outcomes(The(cmd).cls = "RemoteCommand", The(args).timeout) :
         LET a == The(args)
             r == Execute(a, out)
         IN /\ produced' = Some(out)
            /\ cmd' = Some(self_after_execute(The(cmd)))
            /\ last_raised' = r.raised
            /\ pp_calls' = r.pp_calls
            /\ events' = Append(events, ExecuteEvent)
            /\ result' = Some(r.result)
            /\ error_log' = error_log \o r.logged
            /\ outcome' = IF IsSome(r.raised) THEN Raised(The(r.raised))
                          ELSE Returned(The(r.returned))
    /\ pc' = "done"
    /\ UNCHANGED << args, repeat_messages, attempts_left, sleep_time, slept_time,
                    echoed, envvars >>

\* One round of the while loop of execute_repeat, from state st: the
\* execute call of command object self, and either the return of its result
\* or the handling of its exception.
while_body(a, self, st, out) ==
    LET r == execute(self @@ [result |-> st.result], out, a.post_processor, a.check,
                     a.stderr_is_error, a.timeout, a.error_log)
        log == [repeat_messages |-> st.repeat_messages, echoed |-> st.echoed]
        called == [st EXCEPT !.produced = Some(out),
                             !.last_raised = r.raised,
                             !.pp_calls = r.pp_calls,
                             !.error_log = @ \o r.logged,
                             !.events = Append(@, ExecuteEvent)]
    IN IF ~IsSome(r.raised)
       THEN LET n == attempt_number(a.attempts, st.attempts_left)
                l == repeat_message(log, Some(SucceededMessage(n, a.attempts,
                                                               st.slept_time)),
                                    a.verbose)
                res == [The(r.returned) EXCEPT
                           !.repeat_messages = Some(l.repeat_messages),
                           !.attempts = Some(n)]
            IN [called EXCEPT !.repeat_messages = l.repeat_messages,
                              !.echoed = l.echoed,
                              !.result = Some(res),
                              !.outcome = Returned(res),
                              !.pc = "done"]
       ELSE LET left == after_failure(st.attempts_left)
                l == repeat_message(log, Some(FailedMessage(a.attempts - left,
                                                            a.attempts,
                                                            The(r.raised),
                                                            st.sleep_time)),
                                    a.verbose)
                failed == [called EXCEPT !.attempts_left = left,
                                         !.repeat_messages = l.repeat_messages,
                                         !.echoed = l.echoed,
                                         !.result = Some(r.result)]
            IN IF sleeps_before_retry(left)
               THEN [failed EXCEPT
                        !.events = Append(@, SleepEvent(sleep_argument(a.wait,
                                                                       st.sleep_time))),
                        !.slept_time = @ + st.sleep_time,
                        !.sleep_time = next_sleep_time(@)]
               ELSE failed

\* One round of the while loop of execute_repeat.
attempt ==
    /\ pc = "while"
    /\ while_condition(attempts_left)
    /\ \E out \in Outcomes(The(cmd).cls = "RemoteCommand", The(args).timeout) :
         /\ Assign(while_body(The(args), The(cmd), Locals, out))
         /\ cmd' = Some(self_after_execute(The(cmd)))
    /\ UNCHANGED << args, envvars >>

\* The else branch of the while loop, from state st: the loop condition is
\* false.  assert attempts_left==0, then RepeatedExecutionFailed is raised
\* with the log as its message, without a result and without the error_log.
while_else(a, st) ==
    LET l == repeat_message([repeat_messages |-> st.repeat_messages,
                             echoed |-> st.echoed],
                            Some(ExhaustedMessage(a.attempts)), a.verbose)
        fc == FailedCommand("RepeatedExecutionFailed",
                            [text |-> l.repeat_messages], None, FALSE)
    IN IF st.attempts_left = 0
       THEN [st EXCEPT !.repeat_messages = l.repeat_messages,
                       !.echoed = l.echoed,
                       !.error_log = @ \o fc.logged,
                       !.outcome = Raised(fc.error),
                       !.pc = "done"]
       ELSE [st EXCEPT !.outcome = Raised(OtherException("AssertionError").error),
                       !.pc = "done"]

\* The else branch of the while loop.
exhausted ==
    /\ pc = "while"
    /\ ~while_condition(attempts_left)
    /\ Assign(while_else(The(args), Locals))
    /\ UNCHANGED << args, cmd, envvars >>

Next == run \/ execute_once \/ attempt \/ exhausted

Spec == Init /\ [][Next]_vars

\* ------------------------------------------------------ verbose or silent
\* A specification of two execute_repeat calls that are given the same
\* arguments but for verbose, on commands that do the same in every attempt.

\* The arguments the two calls share.
VerboseArgs ==
    { a \in CallArgs : /\ a.entry = "execute_repeat"
                       /\ a.working_directory = Some(<< "." >>)
                       /\ a.stderr_is_error /\ ~a.error_log /\ a.verbose
                       /\ a.timeout = Some(1)
                       /\ a.post_processor \in { None, Some("xml_to_odict") } }

TwinFrame ==
    UNCHANGED << pc, args, cmd, result, repeat_messages, attempts_left, sleep_time,
                 slept_time, events, produced, last_raised, pp_calls, outcome,
                 error_log, echoed, shell, channel, fs, last_call >>

\* cmd.execute_repeat(..., verbose=True) and cmd.execute_repeat(...,
\* verbose=False) are called, each on a new command object.
call_both ==
    /\ twin = None
    /\ \E a \in VerboseArgs :
         twin' = Some([self |-> NewCommand(a),
                       verbose |-> [a |-> a, st |-> while_entry(a, Locals)],
                       silent |-> [a |-> [a EXCEPT !.verbose = FALSE],
                                   st |-> while_entry([a EXCEPT !.verbose = FALSE],
                                                      Locals)]])
    /\ TwinFrame

\* A call that is in its while loop with attempts left runs one round, in
\* which its command does `out`.
round(self, call, out) ==
    IF call.st.pc = "while" /\ while_condition(call.st.attempts_left)
    THEN [call EXCEPT !.st = while_body(call.a, self, call.st, out)]
    ELSE call

\* A call that is in its while loop with no attempts left takes the else
\* branch.
give_up(call) ==
    IF call.st.pc = "while" /\ ~while_condition(call.st.attempts_left)
    THEN [call EXCEPT !.st = while_else(call.a, call.st)]
    ELSE call

\* Both calls run one round; the two commands do the same.
attempt_both ==
    /\ IsSome(twin)
    /\ \E out \in Outcomes(The(twin).self.cls = "RemoteCommand", Some(1)) :
         twin' = Some([The(twin) EXCEPT !.verbose = round(The(twin).self, @, out),
                                        !.silent = round(The(twin).self, @, out)])
    /\ twin' /= twin
    /\ TwinFrame

\* Both calls take the else branch of the loop.
exhausted_both ==
    /\ IsSome(twin)
    /\ twin' = Some([The(twin) EXCEPT !.verbose = give_up(@), !.silent = give_up(@)])
    /\ twin' /= twin
    /\ TwinFrame

NextVerbose == call_both \/ attempt_both \/ exhausted_both

SpecVerbose == Init /\ [][NextVerbose]_vars

\* ------------------------------------------------ one object, many calls
\* A specification of execute_repeat called with any number of attempts,
\* negative ones too, and called again on the same command object.

\* The arguments of the calls: attempts of any sign.
ReuseArgs ==
    { [a EXCEPT !.attempts = attempts]
      : a \in { a \in CallArgs : /\ a.entry = "execute_repeat"
                                 /\ a.working_directory = Some(<< "." >>)
                                 /\ a.check /\ ~a.stderr_is_error /\ ~a.error_log
                                 /\ ~a.verbose /\ a.wait = MaxWait /\ a.attempts = 0
                                 /\ a.timeout = Some(1)
                                 /\ a.post_processor = None },
        attempts \in -1 .. 2 }

\* cmd.execute_repeat(...) on a new command object, or once more on the
\* command object of the call that ended: up to the while loop.
call_execute_repeat ==
    /\ pc \in { "idle", "done" }
    /\ Len(events) < MaxEvents
    /\ \E a \in ReuseArgs :
         /\ IsSome(args) => a.connection = The(args).connection
         /\ args' = Some(a)
         /\ cmd' = IF IsSome(cmd) THEN cmd ELSE Some(NewCommand(a))
         /\ Assign(while_entry(a, [Locals EXCEPT !.events = Append(@, CallEvent),
                                                 !.outcome = NoOutcome]))
    /\ UNCHANGED envvars

NextReuse ==
    \/ call_execute_repeat
    \/ (attempt /\ Len(events) < MaxEvents)
    \/ exhausted

SpecReuse == Init /\ [][NextReuse]_vars

\* ------------------------------------------------- command construction
\* A second specification: a command object is built for any working
\* directory, and the remote shell runs the command line it is sent.

\* The characters of a working directory name.
DirChars == { "d", " ", "'", ";" }

\* The working directory names of at most MaxDirLen characters.
Dirs == UNION { [1 .. k -> DirChars] : k \in 0 .. MaxDirLen }

\* What the shell has done: the directory it changed to, the commands
\* (argument vectors) it ran, and the status of the last command.
ShellStart == [ok |-> TRUE, cwd |-> None, ran |-> <<>>]

\* The shell runs the simple command `words` (unless skipped): cd changes
\* the directory and fails when the directory cannot be entered; any other
\* command is run.
ShellExec(words, enabled, cd_ok, st) ==
    IF ~enabled \/ words = <<>> THEN st
    ELSE IF words[1] = << "c", "d" >>
    THEN IF cd_ok /\ Len(words) >= 2
         THEN [st EXCEPT !.ok = TRUE, !.cwd = Some(words[2])]
         ELSE [st EXCEPT !.ok = FALSE]
    ELSE [st EXCEPT !.ok = TRUE, !.ran = Append(@, words)]

RECURSIVE ShellList(_, _, _, _, _)
\* The shell runs a list of commands joined by '&&' (the next command runs
\* only after success) and ';' (the next command runs anyway).
ShellList(toks, words, enabled, cd_ok, st) ==
    IF toks = <<>> THEN ShellExec(words, enabled, cd_ok, st)
    ELSE IF Head(toks).op
    THEN LET after == ShellExec(words, enabled, cd_ok, st)
         IN ShellList(Tail(toks), <<>>,
                      IF Head(toks).text = << ";" >> THEN TRUE ELSE enabled /\ after.ok,
                      cd_ok, after)
    ELSE ShellList(Tail(toks), Append(words, Head(toks).text), enabled, cd_ok, st)

\* The remote shell runs command line `line`.
ShellRun(line, cd_ok) ==
    ShellList(Tokens(line, 1, "plain", <<>>, FALSE, TRUE), <<>>, TRUE, cd_ok, ShellStart)

\* LocalCommand(command, working_directory=...) or RemoteCommand(connection,
\* command, working_directory=...) is constructed.
construct ==
    /\ pc = "idle"
    /\ \E c \in Connections, wd \in {None} \cup {Some(d) : d \in Dirs} :
         cmd' = Some(NewCommand([connection |-> c, working_directory |-> wd]))
    /\ pc' = "constructed"
    /\ UNCHANGED << args, result, repeat_messages, attempts_left, sleep_time, slept_time,
                    events, produced, last_raised, pp_calls, outcome, error_log, echoed,
                    envvars >>

\* exec_command sends the command line of a remote command to the shell of
\* the remote machine, where the working directory can be entered or not.
exec_command ==
    /\ pc = "constructed"
    /\ The(cmd).cls = "RemoteCommand"
    /\ \E cd_ok \in BOOLEAN :
         shell' = Some(ShellRun(The(cmd).command, cd_ok))
    /\ pc' = "sent"
    /\ UNCHANGED << args, cmd, result, repeat_messages, attempts_left, sleep_time,
                    slept_time, events, produced, last_raised, pp_calls, outcome,
                    error_log, echoed, channel, twin, fs, last_call >>

NextCommand == construct \/ exec_command

SpecCommand == Init /\ [][NextCommand]_vars

\* ---------------------------------------------------- execute, step by step
\* A third specification: one execute call against a running command, at
\* the grain of the blocking calls the executor makes.  The command writes
\* to its streams, closes them and exits when it pleases, or never; time
\* passes while the executor waits.

\* The channel (remote) or the pipes (local) between executor and command.
\* waited: the time the current blocking call has waited so far.
NewChannel(remote, timeout) ==
    [remote |-> remote, timeout |-> timeout, proc |-> "running",
     out_open |-> TRUE, err_open |-> TRUE, out_buf |-> 0, err_buf |-> 0,
     written |-> 0, waited |-> 0, raised |-> None]

\* The executor is inside execute.
Executing == pc \in { "subprocess.run", "stdout.read", "stderr.read", "recv_exit_status" }

ChannelFrame ==
    UNCHANGED << args, cmd, result, repeat_messages, attempts_left, sleep_time,
                 slept_time, events, produced, last_raised, pp_calls, outcome,
                 error_log, echoed, shell, twin, fs, last_call >>

\* execute(timeout=...) is called: the local executor enters subprocess.run,
\* the remote one exec_command and then stdout.read().
call_execute ==
    /\ pc = "idle"
    /\ \E remote \in BOOLEAN, timeout \in Timeouts :
         /\ channel' = Some(NewChannel(remote, timeout))
         /\ pc' = IF remote THEN "stdout.read" ELSE "subprocess.run"
    /\ ChannelFrame

\* The command writes to stdout.
command_writes_stdout ==
    /\ Executing
    /\ The(channel).proc = "running" /\ The(channel).out_open
    /\ The(channel).written < MaxChunks
    /\ channel' = Some([The(channel) EXCEPT !.out_buf = @ + 1, !.written = @ + 1])
    /\ UNCHANGED pc /\ ChannelFrame

\* The command writes to stderr.
command_writes_stderr ==
    /\ Executing
    /\ The(channel).proc = "running" /\ The(channel).err_open
    /\ The(channel).written < MaxChunks
    /\ channel' = Some([The(channel) EXCEPT !.err_buf = @ + 1, !.written = @ + 1])
    /\ UNCHANGED pc /\ ChannelFrame

\* The command closes its stdout and goes on running.
command_closes_stdout ==
    /\ Executing
    /\ The(channel).proc = "running" /\ The(channel).out_open
    /\ channel' = Some([The(channel) EXCEPT !.out_open = FALSE])
    /\ UNCHANGED pc /\ ChannelFrame

\* The command closes its stderr and goes on running.
command_closes_stderr ==
    /\ Executing
    /\ The(channel).proc = "running" /\ The(channel).err_open
    /\ channel' = Some([The(channel) EXCEPT !.err_open = FALSE])
    /\ UNCHANGED pc /\ ChannelFrame

\* The command exits: its streams are closed and its exit status is sent.
command_exits ==
    /\ Executing
    /\ The(channel).proc = "running"
    /\ channel' = Some([The(channel) EXCEPT !.proc = "exited", !.out_open = FALSE,
                                             !.err_open = FALSE])
    /\ UNCHANGED pc /\ ChannelFrame

\* Time passes while a blocking call that was given a timeout waits.
tick ==
    /\ Executing
    /\ IsSome(The(channel).timeout)
    /\ The(channel).waited < The(The(channel).timeout)
    /\ channel' = Some([The(channel) EXCEPT !.waited = @ + 1])
    /\ UNCHANGED pc /\ ChannelFrame

\* subprocess.run(..., timeout=timeout) returns once the command has exited.
subprocess_returns ==
    /\ pc = "subprocess.run"
    /\ The(channel).proc = "exited"
    /\ pc' = "done"
    /\ UNCHANGED channel /\ ChannelFrame

\* subprocess.run kills the command when the timeout expires and raises
\* TimeoutExpired, which execute turns into CommandTimedOut.
subprocess_times_out ==
    /\ pc = "subprocess.run"
    /\ The(channel).proc = "running"
    /\ IsSome(The(channel).timeout)
    /\ The(channel).waited >= The(The(channel).timeout)
    /\ channel' = Some([The(channel) EXCEPT !.proc = "killed",
                                             !.raised = Some("CommandTimedOut")])
    /\ pc' = "done"
    /\ ChannelFrame

\* tpl[1].read() receives what the command wrote to stdout; every receive
\* waits anew.
recv_stdout ==
    /\ pc = "stdout.read"
    /\ The(channel).out_buf > 0
    /\ channel' = Some([The(channel) EXCEPT !.out_buf = 0, !.waited = 0])
    /\ UNCHANGED pc /\ ChannelFrame

\* tpl[1].read() reaches the end of stdout; tpl[2].read() is next.
stdout_eof ==
    /\ pc = "stdout.read"
    /\ The(channel).out_buf = 0 /\ ~The(channel).out_open
    /\ channel' = Some([The(channel) EXCEPT !.waited = 0])
    /\ pc' = "stderr.read"
    /\ ChannelFrame

\* tpl[2].read() receives what the command wrote to stderr.
recv_stderr ==
    /\ pc = "stderr.read"
    /\ The(channel).err_buf > 0
    /\ channel' = Some([The(channel) EXCEPT !.err_buf = 0, !.waited = 0])
    /\ UNCHANGED pc /\ ChannelFrame

\* tpl[2].read() reaches the end of stderr; recv_exit_status() is next.
stderr_eof ==
    /\ pc = "stderr.read"
    /\ The(channel).err_buf = 0 /\ ~The(channel).err_open
    /\ channel' = Some([The(channel) EXCEPT !.waited = 0])
    /\ pc' = "recv_exit_status"
    /\ ChannelFrame

\* A read on the channel has waited for the timeout given to exec_command
\* and raises socket.timeout, which execute turns into CommandTimedOut.
read_times_out ==
    /\ \/ pc = "stdout.read" /\ The(channel).out_buf = 0 /\ The(channel).out_open
       \/ pc = "stderr.read" /\ The(channel).err_buf = 0 /\ The(channel).err_open
    /\ IsSome(The(channel).timeout)
    /\ The(channel).waited >= The(The(channel).timeout)
    /\ channel' = Some([The(channel) EXCEPT !.raised = Some("CommandTimedOut")])
    /\ pc' = "done"
    /\ ChannelFrame

\* tpl[1].channel.recv_exit_status() returns once the exit status of the
\* command has arrived; it is given no timeout.
recv_exit_status ==
    /\ pc = "recv_exit_status"
    /\ The(channel).proc = "exited"
    /\ pc' = "done"
    /\ UNCHANGED channel /\ ChannelFrame

\* The steps of the executor.
ExecutorStep ==
    \/ subprocess_returns
    \/ subprocess_times_out
    \/ recv_stdout
    \/ stdout_eof
    \/ recv_stderr
    \/ stderr_eof
    \/ read_times_out
    \/ recv_exit_status

\* The steps of the command.
CommandStep ==
    \/ command_writes_stdout
    \/ command_writes_stderr
    \/ command_closes_stdout
    \/ command_closes_stderr
    \/ command_exits

NextChannel == call_execute \/ CommandStep \/ tick \/ ExecutorStep

\* The executor takes the steps it can take and time passes; the command
\* owes nothing.
SpecChannel == Init /\ [][NextChannel]_vars /\ WF_vars(tick) /\ WF_vars(ExecutorStep)

\* ------------------------------------------- the window of a remote channel
\* A fourth view of execute: the remote executor called without a timeout,
\* against a command that writes a given number of chunks to its streams, in
\* any order, and then exits.  The channel holds what the executor has not
\* read yet, stdout and stderr together, up to its window; a command that
\* finds the window full waits for room.

\* exec_command(command, timeout=None) opens a channel with some window and
\* starts a command that has out_todo chunks for stdout and err_todo chunks
\* for stderr; stdout.read() is next.
call_remote_execute ==
    /\ pc = "idle"
    /\ \E window \in 1 .. MaxWindow, out_todo \in 0 .. MaxTodo, err_todo \in 0 .. MaxTodo :
         channel' = Some(NewChannel(TRUE, None)
                         @@ [window |-> window, out_todo |-> out_todo,
                             err_todo |-> err_todo])
    /\ pc' = "stdout.read"
    /\ ChannelFrame

\* The command writes its next chunk to one of its streams, when the window
\* of the channel has room for it.
program_writes ==
    /\ Executing
    /\ The(channel).proc = "running"
    /\ The(channel).out_buf + The(channel).err_buf < The(channel).window
    /\ \/ /\ The(channel).out_todo > 0
          /\ channel' = Some([The(channel) EXCEPT !.out_todo = @ - 1, !.out_buf = @ + 1])
       \/ /\ The(channel).err_todo > 0
          /\ channel' = Some([The(channel) EXCEPT !.err_todo = @ - 1, !.err_buf = @ + 1])
    /\ UNCHANGED pc /\ ChannelFrame

\* The command has written all it had to write and exits: its streams are
\* closed and its exit status is sent.
program_exits ==
    /\ Executing
    /\ The(channel).proc = "running"
    /\ The(channel).out_todo = 0 /\ The(channel).err_todo = 0
    /\ channel' = Some([The(channel) EXCEPT !.proc = "exited", !.out_open = FALSE,
                                             !.err_open = FALSE])
    /\ UNCHANGED pc /\ ChannelFrame

NextWindow ==
    \/ call_remote_execute
    \/ program_writes
    \/ program_exits
    \/ recv_stdout
    \/ stdout_eof
    \/ recv_stderr
    \/ stderr_eof
    \/ recv_exit_status

\* Command and executor take the steps they can take.
SpecWindow == Init /\ [][NextWindow]_vars /\ WF_vars(NextWindow)

\* ------------------------------------------------------------ file systems
\* A file system is a function from the paths that exist (strings, relative
\* to the directory the commands start in) to "file" or "dir".

\* The position of the last '/' of p (0: none).
LastSlash(p) ==
    LET at == { i \in 1 .. Len(p) : p[i] = "/" }
    IN IF at = {} THEN 0 ELSE CHOOSE i \in at : \A j \in at : j <= i

\* os.path.basename(p)
basename(p) == SubSeq(p, LastSlash(p) + 1, Len(p))

\* os.path.dirname(p)
dirname(p) == SubSeq(p, 1, LastSlash(p) - 1)

\* os.path.join(a, b), for a relative b
join(a, b) == a \o << "/" >> \o b

\* q lies below directory p.
IsUnder(q, p) ==
    /\ Len(q) > Len(p) + 1
    /\ SubSeq(q, 1, Len(p)) = p
    /\ q[Len(p) + 1] = "/"

\* p and the directories above it.
Chain(p) == { SubSeq(p, 1, i - 1) : i \in { j \in 2 .. Len(p) : p[j] = "/" } } \cup { p }

\* p and all that lies below it.
Subtree(files, p) == { q \in DOMAIN files : q = p \/ IsUnder(q, p) }

IsFile(files, p) == p \in DOMAIN files /\ files[p] = "file"
IsDir(files, p) == p \in DOMAIN files /\ files[p] = "dir"

\* The directory that is to hold p exists (the starting directory always does).
ParentIsDir(files, p) == dirname(p) = <<>> \/ IsDir(files, dirname(p))

\* The paths of set S are removed.
Without(files, S) == [q \in (DOMAIN files) \ S |-> files[q]]

\* p and the missing directories above it are created as directories.
WithDirs(files, p) == [q \in Chain(p) \ DOMAIN files |-> "dir"] @@ files

\* What a system call or a program does: the file system afterwards, the
\* exit code (or errno name), and what it wrote.
Done(files, returncode, stdout, stderr) ==
    [files |-> files, returncode |-> returncode, stdout |-> stdout, stderr |-> stderr]

\* ------------------------------------------------- the Python library calls
\* os.path.exists(p)
os_path_exists(files, p) == p \in DOMAIN files

\* os.makedirs(p): raises FileExistsError (EEXIST) when p exists, and
\* NotADirectoryError (ENOTDIR) when a file is in the way.
os_makedirs(files, p) ==
    IF p \in DOMAIN files THEN Done(files, "EEXIST", <<>>, "")
    ELSE IF \E q \in Chain(p) : IsFile(files, q) THEN Done(files, "ENOTDIR", <<>>, "")
    ELSE Done(WithDirs(files, p), "", <<>>, "")

\* shutil.rmtree(p): removes directory p and its contents; raises
\* NotADirectoryError when p is a file, FileNotFoundError when p is missing.
shutil_rmtree(files, p) ==
    IF IsDir(files, p) THEN Done(Without(files, Subtree(files, p)), "", <<>>, "")
    ELSE IF IsFile(files, p) THEN Done(files, "ENOTDIR", <<>>, "")
    ELSE Done(files, "ENOENT", <<>>, "")

\* ------------------------------------------------------- the programs run
RECURSIVE mkdir_p(_, _, _)
\* mkdir -p operands...: every operand that is not a directory yet is
\* created with the directories above it; a file in the way is an error.
mkdir_p(files, operands, failed) ==
    IF operands = <<>>
    THEN Done(files, IF failed THEN 1 ELSE 0, <<>>, IF failed THEN "err" ELSE "")
    ELSE IF \E q \in Chain(Head(operands)) : IsFile(files, q)
    THEN mkdir_p(files, Tail(operands), TRUE)
    ELSE mkdir_p(WithDirs(files, Head(operands)), Tail(operands), failed)

RECURSIVE rm(_, _, _, _)
\* rm -f operands... and rm -rf operands...: a missing operand is no error;
\* without -r a directory is an error.
rm(files, recursive, operands, failed) ==
    IF operands = <<>>
    THEN Done(files, IF failed THEN 1 ELSE 0, <<>>, IF failed THEN "err" ELSE "")
    ELSE IF IsDir(files, Head(operands)) /\ ~recursive
    THEN rm(files, recursive, Tail(operands), TRUE)
    ELSE rm(Without(files, Subtree(files, Head(operands))), recursive, Tail(operands),
            failed)

\* [ operator p ]: exit code 0 when the test holds, 1 when it does not, 2
\* when the expression is malformed.
test(files, expression) ==
    IF Len(expression) = 2 /\ expression[1] \in { << "-", "e" >>, << "-", "d" >> }
    THEN LET holds == IF expression[1] = << "-", "e" >>
                      THEN expression[2] \in DOMAIN files
                      ELSE IsDir(files, expression[2])
         IN Done(files, IF holds THEN 0 ELSE 1, <<>>, "")
    ELSE IF Len(expression) = 1 THEN Done(files, 0, <<>>, "")
    ELSE Done(files, 2, <<>>, "err")

RECURSIVE find(_, _, _, _)
\* find operands... -maxdepth 1 -type f: the lines printed (the regular
\* files at depth 0 and 1 of every operand, here in some order) and whether
\* an operand was missing.
find(files, operands, printed, failed) ==
    LET start == Head(operands)
        below == { q \in DOMAIN files : /\ IsFile(files, q)
                                        /\ LastSlash(q) > 0
                                        /\ dirname(q) = start }
        found == IF IsFile(files, start) THEN << start >>
                 ELSE CHOOSE order \in [1 .. Cardinality(below) -> below] :
                         \A q \in below : \E i \in DOMAIN order : order[i] = q
    IN IF operands = <<>> \/ Head(start) = "-"
       THEN [printed |-> printed, failed |-> failed]
       ELSE IF start \in DOMAIN files
       THEN find(files, Tail(operands), printed \o found, failed)
       ELSE find(files, Tail(operands), printed, TRUE)

\* mv operands...: two operands rename the first to the second, unless the
\* second is a directory; with a directory as the last operand every source
\* is moved into it, with what lies below it; a missing source is an error.
mv(files, operands) ==
    LET last == operands[Len(operands)]
        sources == SubSeq(operands, 1, Len(operands) - 1)
        Moved(from, s, target) ==
            [q \in { target \o SubSeq(m, Len(s) + 1, Len(m)) : m \in Subtree(from, s) }
                |-> from[s \o SubSeq(q, Len(target) + 1, Len(q))]]
            @@ Without(from, Subtree(from, s) \cup Subtree(from, target))
        RECURSIVE mv_into(_, _, _)
        mv_into(from, rest, failed) ==
            IF rest = <<>>
            THEN Done(from, IF failed THEN 1 ELSE 0, <<>>, IF failed THEN "err" ELSE "")
            ELSE IF Head(rest) \notin DOMAIN from \/ Head(rest) = last
                    \/ IsUnder(last, Head(rest))
            THEN mv_into(from, Tail(rest), TRUE)
            ELSE mv_into(Moved(from, Head(rest), join(last, basename(Head(rest)))),
                         Tail(rest), failed)
    IN IF Len(operands) < 2 THEN Done(files, 1, <<>>, "err")
       ELSE IF IsDir(files, last) THEN mv_into(files, sources, FALSE)
       ELSE IF Len(operands) > 2 \/ sources[1] \notin DOMAIN files
               \/ ~ParentIsDir(files, last)
               \/ (IsDir(files, sources[1]) /\ IsFile(files, last))
       THEN Done(files, 1, <<>>, "err")
       ELSE Done(Moved(files, sources[1], last), 0, <<>>, "")

\* What running the program with argument vector argv can do: one outcome,
\* but for find, which prints in the order of the directory.
Program(files, argv) ==
    LET name == Head(argv)
        flag == IF Len(argv) >= 2 THEN argv[2] ELSE <<>>
        operands == SubSeq(argv, 3, Len(argv))
        RECURSIVE Lines(_)
        Lines(paths) ==
            IF paths = <<>> THEN <<>> ELSE Head(paths) \o << "\n" >> \o Lines(Tail(paths))
    IN IF name = << "m", "k", "d", "i", "r" >> /\ flag = << "-", "p" >>
       THEN { mkdir_p(files, operands, FALSE) }
       ELSE IF name = << "r", "m" >> /\ flag = << "-", "r", "f" >>
       THEN { rm(files, TRUE, operands, FALSE) }
       ELSE IF name = << "r", "m" >> /\ flag = << "-", "f" >>
       THEN { rm(files, FALSE, operands, FALSE) }
       ELSE IF name = << "[" >> /\ argv[Len(argv)] = << "]" >>
       THEN { test(files, SubSeq(argv, 2, Len(argv) - 1)) }
       ELSE IF name = << "f", "i", "n", "d" >>
       THEN LET f == find(files, Tail(argv), <<>>, FALSE)
            IN { Done(files, IF f.failed THEN 1 ELSE 0,
                      Lines([i \in 1 .. Len(f.printed) |-> f.printed[order[i]]]),
                      IF f.failed THEN "err" ELSE "")
                 : order \in Permutations(1 .. Len(f.printed)) }
       ELSE IF name = << "m", "v" >> THEN { mv(files, Tail(argv)) }
       ELSE { Done(files, 127, <<>>, "err") }

RECURSIVE Programs(_, _, _)
\* The programs of the list argvs run one after the other.
Programs(files, argvs, sofar) ==
    IF argvs = <<>> THEN { sofar }
    ELSE UNION { Programs(d.files, Tail(argvs),
                          Done(d.files, d.returncode, sofar.stdout \o d.stdout,
                               IF d.stderr = "" THEN sofar.stderr ELSE d.stderr))
                 : d \in Program(files, Head(argvs)) }

\* The state of the connection when a remote command is sent.
Links == { "up", "down" }

\* A Python value handed to a wrapper where its type matters: a "bool"
\* (flag), a "str" (text), a "Connection" or "None".
Value(is, flag, text) == [is |-> is, flag |-> flag, text |-> text]

\* What a call leaves: the file system, the exception raised (if any) and
\* the value returned (if any).
Left(files, raised, returned) == [files |-> files, raised |-> raised, returned |-> returned]

\* self.execute() with the defaults check=True, stderr_is_error=False,
\* timeout=None, on file system `files`: the possible outcomes.  A remote
\* command needs self.connection.paramiko_client, and the connection up.
execute_on(files, self, connection, post_processor, link) ==
    IF connection.is \notin { "None", "Connection" }
    THEN { Left(files, Some(OtherException("AttributeError").error), None) }
    ELSE IF connection.is = "Connection" /\ link = "down"
    THEN { Left(files, Some(OtherException("SSHException").error), None) }
    ELSE LET argvs == IF connection.is = "Connection"
                      THEN ShellRun(self.command, TRUE).ran
                      ELSE << self.command >>
         IN { LET r == execute(self @@ [result |-> None],
                               [kind |-> "completed", stage |-> "done",
                                stdout |-> d.stdout, stderr |-> d.stderr,
                                returncode |-> d.returncode],
                               post_processor, TRUE, FALSE, None, FALSE)
              IN Left(d.files, r.raised, r.returned)
              : d \in Programs(files, argvs, Done(files, 0, <<>>, "")) }

\* run(command, connection, post_processor=...) with its other defaults
\* (attempts == 1, working_directory '.').
run_command(files, command, connection, post_processor, link) ==
    execute_on(files,
               IF connection.is = "None" THEN LocalCommand(command, Some(<< "." >>))
               ELSE RemoteCommand(ConnectionLabel, command, Some(<< "." >>)),
               connection, post_processor, link)

\* ------------------------------------------------------------ commands.py
\* exists with `except Exception: return False`.
exists_false_on_any_failure(files, p, connection, operator, link) ==
    IF operator = None /\ connection.is = "None"
    THEN { Left(files, None, Some(os_path_exists(files, p))) }
    ELSE LET command == << "[", " " >> \o (IF operator = None THEN << "-", "e" >>
                                           ELSE The(operator))
                        \o << " " >> \o p \o << " ", "]" >>
         IN { IF ~IsSome(o.raised) THEN Left(o.files, None, Some(TRUE))
              ELSE Left(o.files, None, Some(FALSE))
              : o \in run_command(files, command, connection, None, link) }

\* exists(p, connection, operator)
exists(files, p, connection, operator, link) ==
    IF operator = None /\ connection.is = "None"
    THEN { Left(files, None, Some(os_path_exists(files, p))) }
    ELSE LET command == << "[", " " >> \o (IF operator = None THEN << "-", "e" >>
                                           ELSE The(operator))
                        \o << " " >> \o p \o << " ", "]" >>
         IN { IF ~IsSome(o.raised) THEN Left(o.files, None, Some(TRUE))
              ELSE IF The(o.raised).type = "NonZeroReturnCode"
              THEN Left(o.files, None, Some(FALSE))
              ELSE Left(o.files, o.raised, None)
              : o \in run_command(files, command, connection, None, link) }

\* ensure_dir(p, connection), for a str p
ensure_dir(files, p, connection, link) ==
    IF connection.is = "None"
    THEN LET d == os_makedirs(files, p)
         IN IF d.returncode \in { "", "EEXIST" } THEN { Left(d.files, None, Some(p)) }
            ELSE { Left(d.files, Some(OtherException("OSError").error), None) }
    ELSE { IF IsSome(o.raised) THEN Left(o.files, o.raised, None)
           ELSE Left(o.files, None, Some(p))
           : o \in run_command(files,
                               << "m", "k", "d", "i", "r", " ", "-", "p", " " >> \o p,
                               connection, None, link) }

\* remove(p, connection)
remove(files, p, connection, link) ==
    IF connection.is = "None"
    THEN LET d == shutil_rmtree(files, p)
         IN IF d.returncode = "" THEN { Left(d.files, None, None) }
            ELSE { Left(d.files, Some(OtherException("OSError").error), None) }
    ELSE { Left(o.files, o.raised, None)
           : o \in run_command(files, << "r", "m", " ", "-", "r", "f", " " >> \o p,
                               connection, None, link) }

RECURSIVE fnmatch(_, _)
\* fnmatch.fnmatch(name, pattern), for patterns of '*', '?' and plain
\* characters
fnmatch(name, pattern) ==
    IF pattern = <<>> THEN name = <<>>
    ELSE IF Head(pattern) = "*"
    THEN fnmatch(name, Tail(pattern)) \/ (name /= <<>> /\ fnmatch(Tail(name), pattern))
    ELSE /\ name /= <<>>
         /\ Head(pattern) \in { "?", Head(name) }
         /\ fnmatch(Tail(name), Tail(pattern))

\* glob(pattern, path, connection): the three arguments as they arrive.
glob(files, pattern, path, connection, link) ==
    { IF IsSome(o.raised) THEN Left(o.files, o.raised, None)
      ELSE IF pattern.is /= "str" /\ The(The(o.returned).processed) /= <<>>
      THEN Left(o.files, Some(OtherException("TypeError").error), None)
      ELSE Left(o.files, None,
                Some(SelectSeq([i \in DOMAIN The(The(o.returned).processed)
                                  |-> basename(The(The(o.returned).processed)[i])],
                               LAMBDA filename : fnmatch(filename, pattern.text))))
      : o \in run_command(files,
                          << "f", "i", "n", "d", " " >> \o path.text
                          \o << " ", "-", "m", "a", "x", "d", "e", "p", "t", "h", " ", "1",
                                " ", "-", "t", "y", "p", "e", " ", "f" >>,
                          connection, Some("list_of_lines"), link) }

\* copy_remote_to_local(connection, local_destination, remote_source, rename)
\* on the remote file system `files`; link is the state of the connection
\* during the transfer, link_after its state for the command that follows.
\* What it leaves: as Left, and whether the file was transferred.
copy_remote_to_local(files, connection, remote_source, rename, link, link_after) ==
    LET Copied(left, raised, transferred) ==
            [files |-> left, raised |-> raised, returned |-> None,
             transferred |-> transferred]
    IN IF link = "down"
       THEN { Copied(files, Some(OtherException("SSHException").error), FALSE) }
       ELSE IF ~IsFile(files, remote_source)
       THEN { Copied(files, Some(OtherException("IOError").error), FALSE) }
       ELSE IF rename.is = "str"
       THEN LET command == IF rename.text /= <<>>
                           THEN << "m", "v", " " >> \o remote_source \o << " " >>
                                \o rename.text
                           ELSE << "r", "m", " ", "-", "f", " " >> \o remote_source
            IN { Copied(o.files, o.raised, TRUE)
                 : o \in execute_on(files, RemoteCommand(ConnectionLabel, command, None),
                                    connection, None, link_after) }
       ELSE IF ~(rename.is = "bool" /\ rename.flag = FALSE)
       THEN { Copied(files, Some(OtherException("ValueError").error), TRUE) }
       ELSE { Copied(files, None, TRUE) }

\* copy_glob_remote_to_local(connection, local_destination, remote_source,
\* pattern, force_overwrite): its first statement is
\* glob(connection, pattern, remote_source); then the for loop over the
\* names, counting in counts = [copied, not_copied, names copied].
\* local_names are the names that exist in local_destination.
copy_glob_remote_to_local(files, connection, remote_source, pattern, force_overwrite, local_names, link) ==
    LET RECURSIVE copy_files(_, _, _)
        copy_files(names, present, counts) ==
            IF names = <<>> THEN [raised |-> None, counts |-> counts]
            ELSE IF force_overwrite \/ Head(names) \notin present
            THEN LET c == CHOOSE c \in copy_remote_to_local(
                                           files, connection,
                                           join(remote_source, Head(names)),
                                           Value("bool", FALSE, <<>>), link, link) : TRUE
                 IN IF IsSome(c.raised) THEN [raised |-> c.raised, counts |-> counts]
                    ELSE copy_files(Tail(names), present \cup { Head(names) },
                                    [counts EXCEPT !.copied = @ + 1,
                                                   !.names = Append(@, Head(names))])
            ELSE copy_files(Tail(names), present,
                            [counts EXCEPT !.not_copied = @ + 1])
        none == [copied |-> 0, not_copied |-> 0, names |-> <<>>]
    IN { IF IsSome(g.raised) THEN [raised |-> g.raised, counts |-> none]
         ELSE copy_files(The(g.returned), local_names, none)
         : g \in glob(files, connection, Value("str", FALSE, pattern),
                      Value("str", FALSE, remote_source), link) }

\* ---------------------------------------------- the wrappers, call by call
\* A specification of calls of the wrappers on one machine, the local one
\* or the remote one, with any files on it.

\* The paths the wrappers are called with.
PathArgs == { << "d" >>, << "d", "/", "f" >>, << "a", " ", "b" >> }

\* The file systems the machine may hold at the start.
FileSystems ==
    { files \in UNION { [S -> { "file", "dir" }]
                        : S \in SUBSET (PathArgs \cup { << "d", "/", "g" >> }) } :
        \A q \in DOMAIN files : ParentIsDir(files, q) }

\* The patterns glob is called with.
Patterns == { << "*" >>, << "f" >>, << "?", " ", "*" >> }

\* The connection argument of calls that act on the machine.
Connection ==
    Value(IF The(fs).machine = "remote" THEN "Connection" ELSE "None", FALSE, <<>>)

FilesFrame ==
    UNCHANGED << pc, args, cmd, result, repeat_messages, attempts_left, sleep_time,
                 slept_time, events, produced, last_raised, pp_calls, outcome,
                 error_log, echoed, shell, channel, twin >>

\* The wrappers find the machine, local or remote, with some files on it.
mount ==
    /\ fs = None
    /\ \E machine \in { "local", "remote" }, files \in FileSystems :
         fs' = Some([machine |-> machine, files |-> files])
    /\ UNCHANGED last_call
    /\ FilesFrame

\* The call leaves o: the file system and the record of the call.
Called(record, o) ==
    /\ fs' = Some([The(fs) EXCEPT !.files = o.files])
    /\ last_call' = Some(record @@ [connection |-> Connection, before |-> The(fs).files,
                                     raised |-> o.raised, returned |-> o.returned])

call_exists ==
    /\ IsSome(fs)
    /\ The(fs).machine \in { "local", "remote" }
    /\ \E p \in PathArgs, operator \in { None, Some(<< "-", "d" >>) }, link \in IF The(fs).machine = "remote" THEN Links ELSE { "up" } :
         \E o \in exists(The(fs).files, p, Connection, operator, link) :
            Called([op |-> "exists", p |-> p, operator |-> operator, link |-> link], o)
    /\ FilesFrame

call_ensure_dir ==
    /\ IsSome(fs)
    /\ The(fs).machine \in { "local", "remote" }
    /\ \E p \in PathArgs, link \in IF The(fs).machine = "remote" THEN Links ELSE { "up" } :
         \E o \in ensure_dir(The(fs).files, p, Connection, link) :
            Called([op |-> "ensure_dir", p |-> p, link |-> link], o)
    /\ FilesFrame

call_remove ==
    /\ IsSome(fs)
    /\ The(fs).machine \in { "local", "remote" }
    /\ \E p \in PathArgs, link \in IF The(fs).machine = "remote" THEN Links ELSE { "up" } :
         \E o \in remove(The(fs).files, p, Connection, link) :
            Called([op |-> "remove", p |-> p, link |-> link], o)
    /\ FilesFrame

call_glob ==
    /\ IsSome(fs)
    /\ The(fs).machine \in { "local", "remote" }
    /\ \E path \in { << "d" >>, << "a", " ", "b" >> }, pattern \in Patterns,
          link \in IF The(fs).machine = "remote" THEN Links ELSE { "up" } :
         \E o \in glob(The(fs).files, Value("str", FALSE, pattern),
                       Value("str", FALSE, path), Connection, link) :
            Called([op |-> "glob", p |-> path, pattern |-> pattern, link |-> link], o)
    /\ FilesFrame

call_copy_remote_to_local ==
    /\ IsSome(fs)
    /\ The(fs).machine = "remote"
    /\ \E remote_source \in PathArgs, link \in Links, link_after \in Links,
          rename \in { Value("bool", FALSE, <<>>), Value("bool", TRUE, <<>>),
                       Value("str", FALSE, <<>>), Value("str", FALSE, << "d", "/", "g" >>) } :
         \E o \in copy_remote_to_local(The(fs).files, Connection, remote_source, rename,
                                        link, link_after) :
            Called([op |-> "copy_remote_to_local", p |-> remote_source,
                    rename |-> rename, link |-> link, link_after |-> link_after,
                    transferred |-> o.transferred], o)
    /\ FilesFrame

call_copy_glob_remote_to_local ==
    /\ IsSome(fs)
    /\ The(fs).machine = "remote"
    /\ \E pattern \in Patterns, force_overwrite \in BOOLEAN,
          local_names \in { {}, { << "f" >> } }, link \in Links :
         \E o \in copy_glob_remote_to_local(The(fs).files, Connection, << "d" >>,
                                             pattern, force_overwrite, local_names, link) :
            Called([op |-> "copy_glob_remote_to_local", p |-> << "d" >>,
                    pattern |-> pattern, force_overwrite |-> force_overwrite,
                    local_names |-> local_names, link |-> link, counts |-> o.counts],
                   [files |-> The(fs).files, raised |-> o.raised, returned |-> None])
    /\ FilesFrame

NextFiles ==
    \/ mount
    \/ call_exists
    \/ call_ensure_dir
    \/ call_remove
    \/ call_glob
    \/ call_copy_remote_to_local
    \/ call_copy_glob_remote_to_local

SpecFiles == Init /\ [][NextFiles]_vars

\* ------------------------------------------------- copy_local_to_remote
\* copy_local_to_remote(connection, local_source, remote_destination,
\* timeout), statement by statement.  Of the two machines only what the
\* function reads and writes is kept: whether the archive
\* <local_source>.tar.gz exists locally, whether
\* <remote_destination>.tar.gz exists remotely, whether the directory was
\* extracted, and whether a file was put.  `with trace(...)` prints and lets
\* exceptions pass.

\* The statements of the directory branch, in the order of the text.
Statements ==
    << "exists_remote_parent", "compress", "copy_archive", "verify_archive", "extract",
       "remove_local_archive", "remove_remote_archive", "echo" >>

\* Every statement lets the next one run, whatever it raised.
Proceed_despite_failure(call, statement, raised) ==
    LET i == CHOOSE i \in DOMAIN Statements : Statements[i] = statement
    IN [call EXCEPT !.at = IF statement = "put" \/ i = Len(Statements) THEN "returned"
                           ELSE Statements[i + 1],
                    !.steps = Append(@, [statement |-> statement,
                                         succeeded |-> raised = None]),
                    !.raised = IF IsSome(@) THEN @ ELSE raised]

\* Where the call is after `statement`: at the next statement, returned
\* after the last one, or out of the function with the exception raised.
Proceed(call, statement, raised) ==
    LET i == CHOOSE i \in DOMAIN Statements : Statements[i] = statement
    IN [call EXCEPT !.at = IF IsSome(raised) THEN "raised"
                           ELSE IF statement = "put" \/ i = Len(Statements) THEN "returned"
                           ELSE Statements[i + 1],
                    !.steps = Append(@, [statement |-> statement,
                                         succeeded |-> raised = None]),
                    !.raised = raised]

\* What the statement the call is at can do: the exception it raises (if
\* any) and the machines afterwards.  A failed run(cmd, connection) raises
\* the connection's exception or NonZeroReturnCode.
Statement(machines, call) ==
    LET Raises(type) == Some(OtherException(type).error)
        RemoteFailure(link) ==
            Raises(IF link = "down" THEN "SSHException" ELSE "NonZeroReturnCode")
        Does(raised, after) == [raised |-> raised, machines |-> after]
    IN CASE call.at = "put" ->
              \* sftp.put(local_source, remote_destination)
              { Does(IF link = "up" THEN None ELSE RemoteFailure(link),
                     [machines EXCEPT !.put = link = "up"]) : link \in Links }
         [] call.at = "exists_remote_parent" ->
              \* assert exists(remote_parent, connection)
              { Does(RemoteFailure("down"), machines), Does(Raises("AssertionError"), machines),
                Does(None, machines) }
         [] call.at = "compress" ->
              \* run('tar -zcf <local_dir>.tar.gz <local_dir>', working_directory=
              \* local_parent, timeout=timeout), CommandTimedOut turned into
              \* Exception, then assert os.path.exists(local_source_compressed)
              { Does(None, [machines EXCEPT !.local_archive = TRUE]),
                Does(IF machines.local_archive THEN None ELSE Raises("AssertionError"),
                     machines) }
              \cup { Does(Raises(type), [machines EXCEPT !.local_archive = @ \/ partial])
                     : type \in { "NonZeroReturnCode" }
                                \cup IF call.timeout = None THEN {} ELSE { "Exception" },
                       partial \in BOOLEAN }
         [] call.at = "copy_archive" ->
              \* copy_local_to_remote(connection, local_source_compressed,
              \* remote_destination_compressed): a file, sftp.put
              { Does(None, [machines EXCEPT !.remote_archive = TRUE]) }
              \cup { Does(RemoteFailure("down"),
                          [machines EXCEPT !.remote_archive = @ \/ partial])
                     : partial \in BOOLEAN }
         [] call.at = "verify_archive" ->
              \* run('ls <remote_destination>.tar.gz', connection)
              { Does(IF link = "up" /\ machines.remote_archive THEN None
                     ELSE RemoteFailure(link), machines) : link \in Links }
         [] call.at = "extract" ->
              \* run('tar -zxvf <remote_dir>.tar.gz <remote_dir>', connection,
              \* working_directory=remote_parent): the archive holds <local_dir>
              { LET done == link = "up" /\ machines.remote_archive /\ call.same_name
                IN Does(IF done THEN None ELSE RemoteFailure(link),
                        [machines EXCEPT !.extracted = done]) : link \in Links }
         [] call.at = "remove_local_archive" ->
              \* os.remove('<local_source>.tar.gz')
              { Does(IF machines.local_archive THEN None ELSE Raises("OSError"),
                     [machines EXCEPT !.local_archive = FALSE]) }
         [] call.at = "remove_remote_archive" ->
              \* run('rm <remote_destination>.tar.gz', connection)
              { LET done == link = "up" /\ machines.remote_archive
                IN Does(IF done THEN None ELSE RemoteFailure(link),
                        [machines EXCEPT !.remote_archive = IF done THEN FALSE ELSE @])
                : link \in Links }
         [] call.at = "echo" ->
              \* echo('copied ...')
              { Does(None, machines) }

RECURSIVE copy_local_to_remote(_, _)
\* The runs of the function from the statement the call is at: how the
\* call ends and what it leaves on the machines.
copy_local_to_remote(machines, call) ==
    IF call.at \in { "returned", "raised" } THEN { [call |-> call, machines |-> machines] }
    ELSE UNION { copy_local_to_remote(o.machines, Proceed(call, call.at, o.raised))
                 : o \in Statement(machines, call) }

\* A call: assert os.path.exists(local_source), then the branch on
\* os.path.isdir(local_source).  same_name: the last components of
\* local_source and remote_destination are equal.
call_copy_local_to_remote ==
    /\ \/ fs = None
       \/ IsSome(fs) /\ The(fs).machine = "both"
    /\ \E local_source \in { "missing", "file", "dir" }, same_name \in BOOLEAN,
          timeout \in { None, Some(1) }, local_archive \in BOOLEAN, remote_archive \in BOOLEAN :
         \E end \in copy_local_to_remote(
                        [machine |-> "both", local_archive |-> local_archive,
                         remote_archive |-> remote_archive, extracted |-> FALSE,
                         put |-> FALSE],
                        [op |-> "copy_local_to_remote", local_source |-> local_source,
                         same_name |-> same_name, timeout |-> timeout,
                         at |-> CASE local_source = "missing" -> "raised"
                                  [] local_source = "file" -> "put"
                                  [] OTHER -> Head(Statements),
                         steps |-> <<>>,
                         raised |-> IF local_source = "missing"
                                    THEN Some(OtherException("AssertionError").error)
                                    ELSE None]) :
            /\ fs' = Some(end.machines)
            /\ last_call' = Some(end.call)
    /\ FilesFrame

NextCopy == call_copy_local_to_remote

SpecCopy == Init /\ [][NextCopy]_vars

\* ------------------------------------------------------------- Connection
\* Connection(login_node, username, ssh_key, passphrase, verbose, label).
\* Strings are sequences of characters: '/' is os.sep and "/h/" stands for
\* the expanded '~/.ssh/'.  user is the person at the terminal and the
\* world beyond it: the answers given to the prompts, the key files that
\* exist, and what paramiko meets (connect).

\* Mutant of except_clause: the failure is swallowed, line 193 runs and the
\* object is handed to the caller.
except_clause_passes(self) ==
    [raised |-> None, returned |-> Some([self EXCEPT !.paramiko_client = None]),
     self |-> Some([self EXCEPT !.paramiko_client = None])]

\* except: raise NotConnected(...).  Whatever was raised inside the try
\* block is replaced; the constructor does not return.
except_clause(self) ==
    [raised |-> Some([type |-> "NotConnected",
                      msg |-> << "Failed to connect", self.label, self.ssh_key >>]),
     returned |-> None, self |-> Some(self)]

\* Connection.__init__: the set of its outcomes (empty while a prompt waits
\* for an answer that does not come).
Connection_init(login_node, username, ssh_key, passphrase, verbose, label, user) ==
    LET has_sep(k) == \E i \in 1 .. Len(k) : k[i] = "/"
        in_ssh_dir(k) == IF has_sep(k) THEN k ELSE << "/", "h", "/" >> \o k
        interactive == username = None \/ ssh_key = None
        RECURSIVE prompt_key(_, _)
        prompt_key(answers, said) ==
            IF answers = <<>> THEN [state |-> "waiting", said |-> said]
            ELSE IF Head(answers) = <<>> THEN [state |-> "ended", said |-> said]
            ELSE IF in_ssh_dir(Head(answers)) \in user.key_files
                 THEN [state |-> "key", key |-> in_ssh_dir(Head(answers)), said |-> said]
                 ELSE prompt_key(Tail(answers), Append(said, "Inexisting key"))
        asked == IF ssh_key = None
                 THEN prompt_key(user.key_answers, << "Interactively connecting" >>)
                 ELSE [state |-> "key", key |-> The(ssh_key),
                       said |-> IF interactive THEN << "Interactively connecting" >>
                                ELSE <<>>]
        username1 == IF username = None THEN user.username ELSE The(username)
        passphrase1 == IF interactive THEN Some(user.passphrase) ELSE passphrase
        verbose1 == interactive \/ verbose
        NotConnected(msg) ==
            [raised |-> Some([type |-> "NotConnected", msg |-> << msg >>]),
             returned |-> None, self |-> None, echoed |-> asked.said,
             with_passphrase |-> FALSE]
    IN  IF asked.state = "waiting" THEN {}
        ELSE IF asked.state = "ended"
        THEN { NotConnected("You ended the connection process by not providing a ssh key.") }
        ELSE IF interactive /\ ~user.confirm
        THEN { NotConnected("Connection process ended intentionally.") }
        ELSE
        LET self == [login_node |-> login_node, username |-> username1,
                     ssh_key |-> in_ssh_dir(asked.key),
                     label |-> << username1, "@", login_node >>
                               \o (IF IsSome(label) /\ The(label) /= <<>>
                                   THEN << " (", The(label), ")" >> ELSE <<>>),
                     paramiko_client |-> None]
            with_passphrase == IsSome(passphrase1) /\ The(passphrase1) /= <<>>
            client(session) == [self EXCEPT !.paramiko_client = Some([session |-> session])]
            o == CASE user.connect = "ok" ->
                        [raised |-> None, returned |-> Some(client("established")),
                         self |-> Some(client("established"))]
                   [] user.connect = "SSHClient raises" -> except_clause(self)
                   [] OTHER -> except_clause(client("none"))
        IN  { o @@ [echoed |-> asked.said
                               \o (IF user.connect = "ok" /\ verbose1
                                   THEN << "Successfully connected" >> ELSE <<>>),
                    with_passphrase |-> user.connect /= "SSHClient raises"
                                        /\ with_passphrase] }

\* Connection.is_connected.
is_connected(self) == ~(self.paramiko_client = None)

\* A caller constructs a Connection.
call_Connection ==
    /\ pc = "idle"
    /\ \E username \in { None, Some("user") },
          ssh_key \in { None, Some(<< "k" >>), Some(<< "/", "k" >>), Some(<< "n" >>) },
          passphrase \in { None, Some(<< "p" >>) },
          verbose \in BOOLEAN,
          label \in { None, Some(<< "l" >>) },
          key_answers \in { <<>>, << <<>> >>, << << "k" >> >>, << << "n" >>, << "/", "k" >> >>,
                            << << "n" >>, <<>> >>, << << "n" >> >> },
          answer \in { <<>>, << "p" >> },
          confirm \in BOOLEAN,
          connect \in { "ok", "SSHClient raises", "AuthenticationException",
                        "socket.gaierror", "KeyboardInterrupt" } :
         LET user == [username |-> "user", key_answers |-> key_answers,
                      passphrase |-> answer, confirm |-> confirm, connect |-> connect,
                      key_files |-> { << "/", "k" >>, << "/", "h", "/", "k" >> }]
         IN  \E o \in Connection_init("node", username, ssh_key, passphrase, verbose,
                                      label, user) :
                last_call' = Some([op |-> "Connection", username |-> username,
                                   ssh_key |-> ssh_key, passphrase |-> passphrase,
                                   verbose |-> verbose, label |-> label,
                                   connect |-> connect] @@ o)
    /\ UNCHANGED fs
    /\ FilesFrame

NextConnection == call_Connection

SpecConnection == Init /\ [][NextConnection]_vars

\* =================================================================== claims
\* Observations shared by the properties below.

\* The call in progress went through execute_repeat.
InRepeat ==
    /\ IsSome(args)
    /\ ~(The(args).entry = "run" /\ The(args).attempts = 1)

\* The call in progress is run() with attempts == 1.
InSingle ==
    /\ IsSome(args)
    /\ The(args).entry = "run" /\ The(args).attempts = 1

ExecuteCalls == SelectSeq(events, LAMBDA ev : ev.op = "execute")
Sleeps == SelectSeq(events, LAMBDA ev : ev.op = "sleep")
FailedLines == SelectSeq(repeat_messages, LAMBDA m : m.line = "failed")
SucceededLines == SelectSeq(repeat_messages, LAMBDA m : m.line = "succeeded")

RECURSIVE SumSecs(_)
SumSecs(s) == IF s = <<>> THEN 0 ELSE Head(s).secs + SumSecs(Tail(s))

\* Every attempt made so far failed with a classified error.
EveryAttemptFailed ==
    /\ SucceededLines = <<>>
    /\ Len(FailedLines) = Len(ExecuteCalls)
    /\ \A i \in 1 .. Len(FailedLines) : FailedLines[i].type \in ClassifiedErrors

RaisedType == IF outcome.kind = "raised" THEN The(outcome.error).type ELSE ""

C2_ReturnsFirstSuccess ==
    (InRepeat /\ outcome.kind = "returned") =>
        LET k == Len(ExecuteCalls)
            r == The(outcome.result)
        IN /\ pc = "done"
           /\ ~ENABLED Next
           /\ last_raised = None
           /\ Len(FailedLines) = k - 1
           /\ events[Len(events)].op = "execute"
           /\ r.attempts = Some(k)
           /\ r.repeat_messages = Some(repeat_messages)
           /\ repeat_messages[Len(repeat_messages)].line = "succeeded"
           /\ repeat_messages[Len(repeat_messages)].attempt = k
           /\ Len(repeat_messages) = k
           /\ r.stdout = Some(The(produced).stdout)
           /\ r.stderr = Some(The(produced).stderr)
           /\ r.returncode = Some(The(produced).returncode)
           /\ result = Some(r)

C2_Witness ==
    /\ InRepeat /\ The(args).attempts = 3 /\ outcome.kind = "returned"
    /\ The(outcome.result).attempts = Some(2)
    /\ Len(ExecuteCalls) = 2
    /\ Len(FailedLines) = 1

\* C3: the sleep after the k-th failed attempt of execute_repeat lasts
\* 2^(k-1) * wait seconds: the first lasts wait, each later one twice the
\* previous one.  (The code sleeps `wait` seconds every time.)
C3_SleepsDouble ==
    InRepeat =>
        \A k \in 1 .. Len(Sleeps) : Sleeps[k].secs = (2 ^ (k - 1)) * The(args).wait

\* C4: when every one of attempts = n >= 1 attempts failed and
\* RepeatedExecutionFailed is raised, the time slept in total is
\* maximum_wait_time(n, wait) = (2^(n-1) - 1) * wait.  (The code has slept
\* (n-1) * wait seconds.)
C4_TotalSleepIsMaximumWaitTime ==
    (/\ InRepeat /\ The(args).attempts >= 1 /\ EveryAttemptFailed
     /\ pc = "done" /\ RaisedType = "RepeatedExecutionFailed") =>
        SumSecs(Sleeps) = maximum_wait_time(The(args).attempts, The(args).wait)

\* C5: execute_repeat (attempts >= 1) sleeps only between a failed attempt
\* and the attempt that follows it: every sleep comes right after an execute
\* call that raised and is followed by another execute call, the last thing
\* done before returning or raising is an execute call, and once the call
\* has ended the number of sleeps is the number of attempts minus one.
C5_SleepsOnlyBetweenAttempts ==
    (InRepeat /\ The(args).attempts >= 1) =>
        /\ \A i \in 1 .. Len(events) :
              events[i].op = "sleep" =>
                 /\ i > 1 /\ events[i - 1].op = "execute"
                 /\ IF i < Len(events)
                    THEN events[i + 1].op = "execute"
                    ELSE pc = "while" /\ ENABLED attempt /\ IsSome(last_raised)
        /\ Len(events) > 0 =>
              Len(Sleeps) = (IF events[Len(events)].op = "sleep"
                             THEN Len(ExecuteCalls) ELSE Len(ExecuteCalls) - 1)
        /\ pc = "done" =>
              /\ events[Len(events)].op = "execute"
              /\ Len(Sleeps) = Len(ExecuteCalls) - 1

C5_Witness ==
    /\ InRepeat /\ The(args).attempts = 3 /\ The(args).wait = 1
    /\ pc = "done" /\ RaisedType = "RepeatedExecutionFailed"
    /\ Len(ExecuteCalls) = 3 /\ Len(Sleeps) = 2

\* What the latest execute call raised ("" when it returned).
LastRaisedType == IF IsSome(last_raised) THEN The(last_raised).type ELSE ""

\* The latest attempt ran the command to its end.
Completes == IsSome(produced) /\ The(produced).kind = "completed"

\* The latest attempt ended with a non-zero exit code that is checked.
NonZeroChecked == The(args).check /\ The(produced).returncode /= 0

\* The latest attempt wrote on stderr and stderr is an error.
StderrChecked == The(args).stderr_is_error /\ The(produced).stderr /= ""

\* C6: when check is true and the return code is non-zero, execute raises
\* NonZeroReturnCode, also when stderr_is_error is true and stderr is not
\* empty; Stderr is not raised then.
C6_NonZeroExitFirst ==
    (Completes /\ NonZeroChecked) =>
        /\ LastRaisedType = "NonZeroReturnCode"
        /\ The(last_raised).msg.returncode = The(produced).returncode
        /\ The(last_raised).msg.stderr = The(produced).stderr

C6_Witness ==
    /\ Completes /\ NonZeroChecked /\ StderrChecked
    /\ LastRaisedType = "NonZeroReturnCode"

\* C7: execute raises Stderr exactly when stderr_is_error is true, stderr
\* is not empty and NonZeroReturnCode is not raised (check is false or the
\* return code is 0); with check and stderr_is_error both false it raises
\* neither of the two, whatever the return code and stderr.
C7_StderrExactlyWhen ==
    Completes =>
        /\ LastRaisedType = "Stderr" <=> (StderrChecked /\ ~NonZeroChecked)
        /\ LastRaisedType = "NonZeroReturnCode" <=> NonZeroChecked
        /\ (~The(args).check /\ ~The(args).stderr_is_error) =>
              LastRaisedType \notin CheckerErrors

C7_Witness ==
    /\ Completes /\ LastRaisedType = "Stderr"
    /\ ~The(args).check /\ The(produced).returncode = 1
    /\ The(last_raised).msg.stderr = "err"

\* The same with both flags off: a failing command raises nothing.
C7_WitnessUnchecked ==
    /\ Completes /\ ~The(args).check /\ ~The(args).stderr_is_error
    /\ The(produced).returncode = 1 /\ The(produced).stderr = "err"
    /\ last_raised = None

\* C8: a NonZeroReturnCode or Stderr error raised by execute, local or
\* remote, carries the Result of the failed attempt: the stdout, stderr and
\* returncode the command produced in that attempt (and it is cmd.result).
C8_CheckerErrorCarriesResult ==
    LastRaisedType \in CheckerErrors =>
        /\ IsSome(The(last_raised).result)
        /\ The(last_raised).result = result
        /\ LET r == The(The(last_raised).result)
           IN /\ r.stdout = Some(The(produced).stdout)
              /\ r.stderr = Some(The(produced).stderr)
              /\ r.returncode = Some(The(produced).returncode)

C8_Witness ==
    /\ LastRaisedType = "Stderr"
    /\ The(cmd).cls = "RemoteCommand"
    /\ outcome.kind = "raised" /\ RaisedType = "Stderr"
    /\ The(The(outcome.error).result).stdout = Some(<<"a", "\n", "\n", "b">>)
    /\ The(The(outcome.error).result).stderr = Some("err")
    /\ The(The(outcome.error).result).returncode = Some(1)

C9_WitnessNotApplied ==
    /\ LastRaisedType = "NonZeroReturnCode"
    /\ The(args).post_processor = Some("list_of_lines")
    /\ pp_calls = 0

\* The classified error the latest attempt calls for ("" when none).
Classification ==
    IF The(produced).kind = "timeout" THEN "CommandTimedOut"
    ELSE IF NonZeroChecked THEN "NonZeroReturnCode"
    ELSE IF StderrChecked THEN "Stderr"
    ELSE ""

\* C10: run with attempts == 1 makes exactly one execute call and no sleep,
\* and a failure reaches the caller as the classified error itself, never as
\* RepeatedExecutionFailed; run with attempts > 1 goes through
\* execute_repeat with the attempts and the wait it was given.
C10_RunDispatch ==
    /\ InSingle =>
          /\ pc \in {"execute", "done"}
          /\ Sleeps = <<>> /\ repeat_messages = <<>>
          /\ Len(ExecuteCalls) = (IF pc = "done" THEN 1 ELSE 0)
          /\ RaisedType /= "RepeatedExecutionFailed"
          /\ (pc = "done" /\ Classification /= "") =>
                (RaisedType = Classification /\ outcome.error = last_raised)
          /\ (pc = "done" /\ last_raised = None) => outcome.kind = "returned"
    /\ (IsSome(args) /\ The(args).entry = "run" /\ The(args).attempts > 1) =>
          /\ pc \in {"while", "done"}
          /\ attempts_left + Len(FailedLines) = The(args).attempts
          /\ events = <<>> => (sleep_time = The(args).wait /\ slept_time = 0)
          /\ \A i \in 1 .. Len(Sleeps) : Sleeps[i].secs = The(args).wait
          /\ \A i \in 1 .. Len(repeat_messages) :
                repeat_messages[i].attempts = The(args).attempts
          /\ (pc = "done" /\ outcome.kind = "raised") =>
                RaisedType = "RepeatedExecutionFailed"

C10_Witness ==
    /\ InSingle /\ pc = "done"
    /\ RaisedType = "CommandTimedOut"
    /\ events = << ExecuteEvent >>

\* run with attempts > 1 that failed every time.
C10_WitnessRepeat ==
    /\ IsSome(args) /\ The(args).entry = "run" /\ The(args).attempts = 2
    /\ pc = "done" /\ RaisedType = "RepeatedExecutionFailed"
    /\ Len(ExecuteCalls) = 2

\* C11: run executes the command with the local executor exactly when no
\* connection is given, and with the remote executor bound to the given
\* connection otherwise; one call never uses both: every attempt of the call
\* goes through the executor of the one command object that run built.
C11_ExecutorByConnection ==
    IsSome(cmd) =>
        LET a == The(args)
            remote == IsSome(a.connection)
        IN /\ The(cmd).cls = (IF remote THEN "RemoteCommand" ELSE "LocalCommand")
           /\ The(cmd).connection = a.connection
           /\ (IsSome(produced) /\ The(produced).kind = "timeout") =>
                 /\ The(produced).stage = "run" <=> ~remote
                 /\ ("label" \in DOMAIN The(last_raised).msg) <=> remote
           /\ \A i \in 1 .. Len(FailedLines) :
                 FailedLines[i].type \in CheckerErrors =>
                    FailedLines[i].msg.cls = The(cmd).cls

C11_Witness ==
    /\ IsSome(cmd) /\ The(cmd).cls = "RemoteCommand"
    /\ The(cmd).connection = Some(ConnectionLabel)
    /\ Len(ExecuteCalls) = 2 /\ Len(FailedLines) = 2
    /\ FailedLines[1].type = "NonZeroReturnCode"
    /\ FailedLines[1].msg.cls = "RemoteCommand"
    /\ FailedLines[2].type = "CommandTimedOut"
    /\ The(produced).stage = "stderr"

\* The error types of FailedCommand.
FailedCommandErrors == ClassifiedErrors \cup { "RepeatedExecutionFailed" }

\* C12: the retry loop catches NonZeroReturnCode, Stderr and CommandTimedOut
\* only: when an attempt raises any other error, that error reaches the
\* caller at once, with no sleep after it, no further attempt and no
\* RepeatedExecutionFailed.  (The code catches Exception: the error of a
\* post-processor is logged as a failed attempt and retried.)
C12_OnlyClassifiedErrorsRetried ==
    (InRepeat /\ IsSome(last_raised) /\ LastRaisedType \notin ClassifiedErrors) =>
        /\ pc = "done"
        /\ outcome.error = last_raised
        /\ events[Len(events)].op = "execute"

\* C14: a CommandTimedOut error carries a Result in its result field, for a
\* remote command as for a local one.  (The remote executor raises it
\* without a result.)
C14_TimeoutCarriesResult ==
    LastRaisedType = "CommandTimedOut" => IsSome(The(last_raised).result)

\* C15: when run (attempts >= 1) is given an error_log, the FailedCommand
\* error it raises has been written to the error_log; without an error_log
\* nothing is written.  (RepeatedExecutionFailed is built without the
\* error_log and is never written.)
C15_RaisedErrorIsLogged ==
    (IsSome(args) /\ The(args).entry = "run" /\ The(args).attempts >= 1) =>
        /\ (/\ The(args).error_log /\ pc = "done"
            /\ RaisedType \in FailedCommandErrors) =>
               \E i \in 1 .. Len(error_log) :
                  /\ error_log[i].type = RaisedType
                  /\ error_log[i].msg = The(outcome.error).msg
        /\ ~The(args).error_log => error_log = <<>>

\* C16: the RepeatedExecutionFailed error raised when every attempt
\* (attempts >= 1) has failed carries a Result.  (It is built from the log
\* text alone: its result is None.)
C16_RepeatedExecutionFailedCarriesResult ==
    (IsSome(args) /\ The(args).attempts >= 1 /\ RaisedType = "RepeatedExecutionFailed") =>
        IsSome(The(outcome.error).result)

\* The message of RepeatedExecutionFailed is the log: n lines "failed", line
\* k about attempt k of n, then the line "exhausted".
FullHistory(text, n) ==
    /\ Len(text) = n + 1
    /\ \A k \in 1 .. n :
          /\ text[k].line = "failed"
          /\ text[k].attempt = k
          /\ text[k].attempts = n
    /\ text[n + 1].line = "exhausted"
    /\ text[n + 1].attempts = n

\* A failed attempt adds one line to the log, after the lines of the earlier
\* attempts, naming the attempt and the error it raised.
FailureLogged ==
    (pc = "while" /\ pc' = "while" /\ events' /= events) =>
        /\ Len(repeat_messages') = Len(repeat_messages) + 1
        /\ SubSeq(repeat_messages', 1, Len(repeat_messages)) = repeat_messages
        /\ LET new == repeat_messages'[Len(repeat_messages')]
           IN /\ new.line = "failed"
              /\ new.attempt = Len(ExecuteCalls')
              /\ IsSome(last_raised')
              /\ new.type = The(last_raised').type
              /\ new.msg = The(last_raised').msg

\* The line "exhausted" is added after the lines of the attempts.
ExhaustionLogged ==
    (pc = "while" /\ pc' = "done" /\ events' = events) =>
        SubSeq(repeat_messages', 1, Len(repeat_messages)) = repeat_messages

\* C17: the message of the RepeatedExecutionFailed raised by execute_repeat
\* with attempts = n holds the whole history in order: n failure entries,
\* entry k naming attempt k of n with the type and the message of the error
\* attempt k raised, none missing, doubled or out of order.
C17_MessageHoldsFullHistory ==
    /\ [](RaisedType = "RepeatedExecutionFailed" =>
             /\ The(outcome.error).msg.text = repeat_messages
             /\ FullHistory(repeat_messages, The(args).attempts)
             /\ Len(ExecuteCalls) = The(args).attempts)
    /\ [][FailureLogged /\ ExhaustionLogged]_vars

C17_Witness ==
    /\ RaisedType = "RepeatedExecutionFailed" /\ The(args).attempts = 3
    /\ Len(The(outcome.error).msg.text) = 4
    /\ The(outcome.error).msg.text[1].type = "CommandTimedOut"
    /\ The(outcome.error).msg.text[2].type = "NonZeroReturnCode"
    /\ The(outcome.error).msg.text[3].type = "Stderr"

C18_WitnessLocal ==
    /\ outcome.kind = "returned" /\ The(cmd).cls = "LocalCommand"
    /\ The(outcome.result).stdout = Some(<<"a", "\n", "\n", "b">>)
    /\ The(outcome.result).stderr = Some("err")
    /\ The(outcome.result).returncode = Some(1)

C19_WitnessQuote ==
    /\ IsSome(cmd) /\ The(cmd).cls = "RemoteCommand"
    /\ The(cmd).working_directory = Some(<< "d", "'" >>)
    /\ IsSome(shell)
    /\ The(shell).cwd = Some(<< "d", "'" >>)
    /\ The(shell).ran = << << << "l", "s" >>, << "x" >> >> >>

\* C20: executing a Command, once or repeatedly, does not change it: after
\* any number of attempts, failed or successful, its command text, its
\* working directory and its connection are those it was constructed with.
C20_CommandNotMutated ==
    /\ [](IsSome(cmd) => /\ The(cmd).command = NewCommand(The(args)).command
                         /\ The(cmd).working_directory = The(args).working_directory
                         /\ The(cmd).connection = The(args).connection)
    /\ [][IsSome(cmd) => cmd' = cmd]_vars

\* A remote command with a working directory has failed once and succeeded
\* at the second attempt.
C20_Witness ==
    /\ InRepeat /\ outcome.kind = "returned"
    /\ The(cmd).cls = "RemoteCommand"
    /\ Len(ExecuteCalls) = 2
    /\ The(cmd).command = << "c", "d", " ", ".", " ", "&", "&", " ", "l", "s", " ", "x" >>

\* C13: an execute call that is given a timeout does not block forever,
\* whatever the command does with its streams and its exit status: either
\* the command completes or CommandTimedOut is raised.
C13_TimeoutAlwaysRaised ==
    (Executing /\ IsSome(The(channel).timeout))
        ~> (IsSome(channel) /\ (\/ The(channel).proc = "exited"
                                \/ The(channel).raised = Some("CommandTimedOut")))

\* C21: every attempt starts from a new, empty Result.  After an attempt,
\* the Result holds what that attempt stored and nothing else: a completed
\* attempt leaves its own stdout, stderr and returncode, and a processed
\* value only when that attempt post-processed its own stdout; an attempt
\* that timed out leaves only what it had read.  The Result execute_repeat
\* returns is that of the successful attempt.
C21_ResultOfThisAttemptOnly ==
    (InRepeat /\ IsSome(produced)) =>
        LET out == The(produced)
            r == The(result)
            a == The(args)
        IN /\ r.stdout = IF out.kind = "completed" \/ out.stage = "stderr"
                         THEN Some(out.stdout) ELSE None
           /\ r.stderr = IF out.kind = "completed" THEN Some(out.stderr) ELSE None
           /\ r.returncode = IF out.kind = "completed" THEN Some(out.returncode) ELSE None
           /\ IsSome(r.processed) => /\ ~IsSome(last_raised)
                                     /\ IsSome(a.post_processor)
                                     /\ r.processed
                                          = Some(post_process(The(a.post_processor),
                                                              out.stdout).value)
           /\ outcome.kind = "returned" => /\ The(outcome.result) = r
                                           /\ out.kind = "completed"
                                           /\ r.attempts = Some(Len(ExecuteCalls))

\* The first attempt wrote to stderr and failed; the second succeeded with
\* nothing on stdout and stderr, and that is what the returned Result holds.
C21_Witness ==
    /\ InRepeat /\ outcome.kind = "returned"
    /\ Len(ExecuteCalls) = 2
    /\ repeat_messages[1].type = "NonZeroReturnCode"
    /\ repeat_messages[1].msg.stderr = "err"
    /\ The(outcome.result).stderr = Some("")
    /\ The(outcome.result).stdout = Some(<<>>)
    /\ The(outcome.result).returncode = Some(0)

\* A remote attempt timed out before anything was read, after an attempt
\* that completed and failed: the Result is empty again.
C21_WitnessTimeout ==
    /\ InRepeat /\ Len(ExecuteCalls) = 2
    /\ repeat_messages[1].type = "NonZeroReturnCode"
    /\ The(produced).kind = "timeout" /\ The(produced).stage = "stdout"
    /\ The(result) = EmptyResult

\* C30: the times written to the retry log are the times slept: the log
\* line of a failed attempt that is followed by a sleep announces the
\* duration of that sleep, and the 'succeeded after X seconds' line gives
\* the sum of the sleeps performed so far.
C30_LoggedTimesAreSleptTimes ==
    InRepeat =>
        /\ \A k \in 1 .. Len(Sleeps) : FailedLines[k].seconds = Sleeps[k].secs
        /\ \A k \in 1 .. Len(SucceededLines) :
              SucceededLines[k].seconds = SumSecs(Sleeps)

\* C22: verbose only adds the echo of every log line as it is produced.
\* Two execute_repeat calls with the same arguments but for verbose, whose
\* commands do the same in every attempt, agree at every step on the
\* attempts made, the sleeps, the log, the result and the error raised; the
\* silent call echoes nothing and the verbose call has echoed exactly the
\* lines of its log.
C22_VerboseOnlyEchoes ==
    IsSome(twin) =>
        LET v == The(twin).verbose.st
            s == The(twin).silent.st
        IN /\ [v EXCEPT !.echoed = <<>>] = [s EXCEPT !.echoed = <<>>]
           /\ s.echoed = <<>>
           /\ v.echoed = v.repeat_messages

\* Both calls gave up after two failed attempts; the verbose one echoed the
\* three lines of the log.
C22_Witness ==
    /\ IsSome(twin)
    /\ The(twin).verbose.st.pc = "done" /\ The(twin).silent.st.pc = "done"
    /\ The(twin).verbose.a.attempts = 2
    /\ The(twin).silent.st.outcome.kind = "raised"
    /\ The(The(twin).silent.st.outcome.error).type = "RepeatedExecutionFailed"
    /\ Len(The(twin).silent.st.repeat_messages) = 3
    /\ Len(The(twin).verbose.st.echoed) = 3
    /\ Len(The(twin).verbose.st.events) = 3

\* C23: ensure_dir(p) on a path that exists or not, locally or remotely,
\* with the connection up, raises nothing, returns p, leaves p existing, and
\* a second ensure_dir(p) leaves the files as the first left them.
C23_EnsureDirEstablishes ==
    (IsSome(last_call) /\ The(last_call).op = "ensure_dir" /\ The(last_call).link = "up")
        => LET call == The(last_call)
           IN /\ call.raised = None
              /\ call.returned = Some(call.p)
              /\ call.p \in DOMAIN The(fs).files
              /\ \A again \in ensure_dir(The(fs).files, call.p, call.connection, "up") :
                    again.files = The(fs).files /\ again.raised = None

\* C24: remove(p) of an existing file, empty directory or non-empty
\* directory, locally or remotely with the connection up, returns and
\* leaves no p.
C24_RemoveRemoves ==
    (/\ IsSome(last_call)
     /\ The(last_call).op = "remove"
     /\ The(last_call).link = "up"
     /\ The(last_call).p \in DOMAIN The(last_call).before)
        => /\ The(last_call).raised = None
           /\ The(last_call).p \notin DOMAIN The(fs).files

\* C25: glob(pattern, path) on a directory returns the names of the regular
\* files directly in path that match pattern, each once, and nothing else.
C25_GlobExactlyMatchingFiles ==
    (/\ IsSome(last_call)
     /\ The(last_call).op = "glob"
     /\ The(last_call).link = "up"
     /\ IsDir(The(last_call).before, The(last_call).p))
        => LET call == The(last_call)
               names == The(call.returned)
           IN /\ call.raised = None
              /\ { names[i] : i \in 1..Len(names) }
                    = { basename(q) : q \in { q \in DOMAIN call.before :
                                                /\ IsFile(call.before, q)
                                                /\ dirname(q) = call.p
                                                /\ fnmatch(basename(q), call.pattern) } }
              /\ \A i, j \in 1..Len(names) : names[i] = names[j] => i = j

\* C26: exists(p, connection, operator), when it runs a test command, returns
\* TRUE when the test exits with 0 and FALSE when it exits with another
\* code; when the connection fails the failure is raised, it is never
\* NonZeroReturnCode that is raised, and FALSE is returned only for a test
\* that ran and exited with a non-zero code.
C26_ExistsConvertsOnlyNonZero ==
    (/\ IsSome(last_call)
     /\ The(last_call).op = "exists"
     /\ ~(The(last_call).operator = None /\ The(last_call).connection.is = "None"))
        => LET call == The(last_call)
               expression == << IF call.operator = None THEN << "-", "e" >>
                                ELSE The(call.operator) >> \o shlex_split(call.p)
               returncode == test(call.before, expression).returncode
           IN /\ call.link = "up"
                    => call.raised = None /\ call.returned = Some(returncode = 0)
              /\ call.link = "down"
                    => /\ call.returned = None
                       /\ IsSome(call.raised)
                       /\ The(call.raised).type = "SSHException"
              /\ IsSome(call.raised) => The(call.raised).type /= "NonZeroReturnCode"

\* C26 witness: a remote exists() while the connection is down has raised
\* the connection's failure.
C26_Witness ==
    /\ IsSome(last_call)
    /\ The(last_call).op = "exists"
    /\ The(last_call).link = "down"
    /\ IsSome(The(last_call).raised)
    /\ The(The(last_call).raised).type = "SSHException"

\* C26 witness: a test that exited with a non-zero code has given FALSE.
C26_WitnessFalse ==
    /\ IsSome(last_call)
    /\ The(last_call).op = "exists"
    /\ The(last_call).connection.is = "Connection"
    /\ The(last_call).link = "up"
    /\ The(last_call).p \notin DOMAIN The(last_call).before
    /\ The(last_call).returned = Some(FALSE)

\* C27: copy_remote_to_local of an existing remote file, with the connection
\* up throughout, transfers the file and then: rename = False leaves the
\* remote files as they were; rename = '' leaves no remote source; a name
\* that is free in an existing directory leaves no remote source and a file
\* of that name.  The remote files change only after the transfer.
C27_CopyThenTreatSource ==
    (/\ IsSome(last_call)
     /\ The(last_call).op = "copy_remote_to_local"
     /\ The(last_call).link = "up"
     /\ The(last_call).link_after = "up"
     /\ IsFile(The(last_call).before, The(last_call).p))
        => LET call == The(last_call)
               after == The(fs).files
               rename == call.rename
           IN /\ call.transferred
              /\ (rename.is = "bool" /\ ~rename.flag)
                    => call.raised = None /\ after = call.before
              /\ (rename.is = "str" /\ rename.text = <<>>)
                    => call.raised = None /\ call.p \notin DOMAIN after
              /\ (/\ rename.is = "str"
                  /\ rename.text /= <<>>
                  /\ rename.text \notin DOMAIN call.before
                  /\ ParentIsDir(call.before, rename.text))
                    => /\ call.raised = None
                       /\ call.p \notin DOMAIN after
                       /\ IsFile(after, rename.text)

\* C28: copy_glob_remote_to_local on a remote directory, with the connection
\* up, raises nothing, copies the matching files (with force_overwrite
\* false: those that local_destination does not hold), and counts every
\* matching file once, as copied or as not copied.
C28_CopyGlobCopiesMatching ==
    (/\ IsSome(last_call)
     /\ The(last_call).op = "copy_glob_remote_to_local"
     /\ The(last_call).link = "up"
     /\ IsDir(The(last_call).before, The(last_call).p))
        => LET call == The(last_call)
               matching == { basename(q) : q \in { q \in DOMAIN call.before :
                                                     /\ IsFile(call.before, q)
                                                     /\ dirname(q) = call.p
                                                     /\ fnmatch(basename(q), call.pattern) } }
               copied == { call.counts.names[i] : i \in 1..Len(call.counts.names) }
           IN /\ call.raised = None
              /\ call.counts.copied + call.counts.not_copied = Cardinality(matching)
              /\ copied = IF call.force_overwrite THEN matching
                          ELSE matching \ call.local_names

\* C29: copy_local_to_remote of a directory runs its statements in the order
\* compress, copy the archive, verify it, extract, remove the local archive,
\* remove the remote archive; every statement but the last one run has
\* succeeded; and when the function has returned, neither archive exists.
C29_StepsInOrderArchivesRemoved ==
    (IsSome(last_call) /\ The(last_call).op = "copy_local_to_remote"
                       /\ The(last_call).local_source = "dir")
        => LET call == The(last_call)
               n == Len(call.steps)
           IN /\ n <= Len(Statements)
              /\ \A i \in 1..n : call.steps[i].statement = Statements[i]
              /\ \A i \in 1..n : i < n => call.steps[i].succeeded
              /\ IsSome(call.raised) => n > 0 /\ ~call.steps[n].succeeded
              /\ call.at = "returned"
                    => /\ n = Len(Statements)
                       /\ call.steps[n].succeeded
                       /\ ~The(fs).local_archive
                       /\ ~The(fs).remote_archive
                       /\ The(fs).extracted

\* C29 witness: the copy of a directory has run all its statements and
\* returned.
C29_Witness ==
    /\ IsSome(last_call)
    /\ The(last_call).op = "copy_local_to_remote"
    /\ The(last_call).local_source = "dir"
    /\ The(last_call).at = "returned"
    /\ Len(The(last_call).steps) = Len(Statements)

\* C29 witness: the verification of the remote archive has failed and the
\* call has ended there.
C29_WitnessFailure ==
    /\ IsSome(last_call)
    /\ The(last_call).op = "copy_local_to_remote"
    /\ The(last_call).at = "raised"
    /\ Len(The(last_call).steps) = 4
    /\ The(fs).local_archive

\* C32: a call of run that has returned or raised has executed the command
\* at least once, whatever the value of attempts.
C32_RunExecutesAtLeastOnce ==
    (IsSome(args) /\ The(args).entry = "run" /\ pc = "done")
        => Len(ExecuteCalls) >= 1

\* C31: execute_repeat ends after finitely many failed attempts, for every
\* integer attempts: in the while loop the number of attempts left is never
\* below zero, so that the decrement of every failed attempt brings it to
\* the zero that ends the loop.
C31_LoopCounterReachesZero ==
    (IsSome(args) /\ pc = "while") => attempts_left >= 0

\* C33: in execute_repeat called with attempts >= 0, attempts_left stays
\* between 0 and attempts and is attempts minus the number of failed
\* attempts; the call ends by returning a result or by raising
\* RepeatedExecutionFailed with attempts_left = 0, never by a failed
\* assertion.
C33_AttemptsLeftCountsDown ==
    (InRepeat /\ The(args).attempts >= 0 /\ pc \in { "while", "done" })
        => /\ 0 <= attempts_left /\ attempts_left <= The(args).attempts
           /\ attempts_left = The(args).attempts - Len(FailedLines)
           /\ pc = "done" => /\ outcome.kind \in { "returned", "raised" }
                             /\ RaisedType \in { "", "RepeatedExecutionFailed" }
                             /\ RaisedType = "RepeatedExecutionFailed" => attempts_left = 0

\* C33 witness: three attempts of three have failed, and the exhaustion
\* branch has raised with no attempt left.
C33_Witness ==
    /\ InRepeat /\ pc = "done"
    /\ The(args).attempts = MaxAttempts
    /\ Len(FailedLines) = MaxAttempts
    /\ attempts_left = 0
    /\ RaisedType = "RepeatedExecutionFailed"

\* C34: the log of an execute_repeat call holds the lines of that call
\* only, also when the command object was used for a call before: one line
\* for every attempt of the call, and the line of the exhaustion when the
\* call gave up; that log is the one in the result returned and in the
\* message of RepeatedExecutionFailed.
C34_LogOfThisCallOnly ==
    (IsSome(args) /\ pc \in { "while", "done" }
                  /\ \E i \in DOMAIN events : events[i] = CallEvent)
        => LET start == CHOOSE i \in DOMAIN events :
                            /\ events[i] = CallEvent
                            /\ \A j \in DOMAIN events : events[j] = CallEvent => j <= i
               attempts == Len(SelectSeq(SubSeq(events, start, Len(events)),
                                         LAMBDA ev : ev.op = "execute"))
           IN /\ Len(repeat_messages)
                    = attempts + IF RaisedType = "RepeatedExecutionFailed" THEN 1 ELSE 0
              /\ outcome.kind = "returned"
                    => The(outcome.result).repeat_messages = Some(repeat_messages)
              /\ RaisedType = "RepeatedExecutionFailed"
                    => The(outcome.error).msg.text = repeat_messages

\* C34 witness: a second call on the same command object has given up after
\* its one attempt, after a first call that had logged a failure too.
C34_Witness ==
    /\ pc = "done"
    /\ Len(SelectSeq(events, LAMBDA ev : ev = CallEvent)) = 2
    /\ Len(ExecuteCalls) = 2
    /\ events[2] = ExecuteEvent
    /\ RaisedType = "RepeatedExecutionFailed"
    /\ Len(repeat_messages) = 2

\* C35: the Result that the CommandTimedOut error of an attempt carries
\* holds nothing of an earlier execution of the command object, in the same
\* call or in a call before: no stderr, no returncode, no processed value,
\* and no stdout but what the attempt itself had read.
C35_TimeoutResultHoldsNothingOlder ==
    (/\ IsSome(last_raised)
     /\ The(last_raised).type = "CommandTimedOut"
     /\ IsSome(The(last_raised).result))
        => LET r == The(The(last_raised).result)
               out == The(produced)
           IN /\ r.stdout = IF out.stage = "stderr" THEN Some(out.stdout) ELSE None
              /\ r.stderr = None
              /\ r.returncode = None
              /\ r.processed = None
              /\ r.attempts = None
              /\ r.repeat_messages = None

\* C35 witness: a local attempt has timed out after an attempt on the same
\* command object that completed with output on standard error and return
\* code 1; its error carries an empty Result.
C35_Witness ==
    /\ IsSome(last_raised)
    /\ The(last_raised).type = "CommandTimedOut"
    /\ The(last_raised).result = Some(EmptyResult)
    /\ The(cmd).cls = "LocalCommand"
    /\ Len(ExecuteCalls) = 2
    /\ Len(FailedLines) = 2
    /\ FailedLines[1].type = "NonZeroReturnCode"
    /\ FailedLines[1].msg.stderr = "err"
    /\ FailedLines[2].type = "CommandTimedOut"

\* C37: copy_remote_to_local of an existing remote file, with the connection
\* up, called with a rename that is neither a str nor False raises
\* ValueError, has transferred no file and has left the remote files as they
\* were.
C37_ValueErrorBeforeAnyEffect ==
    (/\ IsSome(last_call)
     /\ The(last_call).op = "copy_remote_to_local"
     /\ The(last_call).link = "up"
     /\ IsFile(The(last_call).before, The(last_call).p)
     /\ The(last_call).rename.is /= "str"
     /\ ~(The(last_call).rename.is = "bool" /\ ~The(last_call).rename.flag))
        => /\ IsSome(The(last_call).raised)
           /\ The(The(last_call).raised).type = "ValueError"
           /\ ~The(last_call).transferred
           /\ The(fs).files = The(last_call).before

\* C36: while the remote executor, called without a timeout, is inside
\* execute against a command that writes what it has to write and then
\* exits, a step is always possible: the executor never waits for the end
\* of stdout while the command waits for room in the window of the channel.
C36_ExecuteNeverBlocksForever ==
    (/\ Executing
     /\ The(channel).remote
     /\ The(channel).timeout = None) => ENABLED NextWindow

===============================================================================
